---- MODULE Spec2Model ----
(***************************************************************************)
(* Equilibrium Guard: constraint validator, smart anchor, drift detector   *)
(* and the mode-gated guard facade, as a state machine.                    *)
(*                                                                         *)
(* Numbers.  trust_score, risk_budget and every cost, threshold, boost and *)
(* penalty are Python floats that are multiples of 0.005; they are held    *)
(* here as integers in thousandths (1000 = 1.0), so 0.7 is 700 and the     *)
(* HIGH cost 0.4 is 400.  Timestamps are whole seconds on the clock `now`. *)
(***************************************************************************)
EXTENDS Integers, Sequences, FiniteSets, TLC

VARIABLES
    anchor,      \* SmartAnchor: AnchorState fields, history, budget_size, history_size
    validator,   \* ConstraintValidator: constraints, operation_constraints, history
    guard,       \* EquilibriumGuard: mode, log_decisions, max_decision_history, metrics, decision_history, callbacks
    now,         \* datetime.now(), in seconds
    last,        \* the last call made, its arguments and what it returned
    steps,       \* number of calls made so far
    safeRun,     \* the risk_budget at construction while every call so far was a SAFE pre/post operation, else -1
    bridge       \* DashboardBridge: async_mode, connected, its queues and worker threads, the requests sent

vars == <<anchor, validator, guard, now, last, steps, safeRun, bridge>>

-----------------------------------------------------------------------------
(* Bounds of the model *)

MaxSteps == 3         \* calls per behaviour
MaxWarnings == 3      \* largest advisory_warnings argument
MaxClock == 8000      \* the clock stops advancing past this many seconds

-----------------------------------------------------------------------------
(* Python helpers *)

None == "<None>"

One == 1000

Min(a, b) == IF a < b THEN a ELSE b

Max(a, b) == IF a > b THEN a ELSE b

\* dict.get(key, default)
Get(context, key, default) == IF key \in DOMAIN context THEN context[key] ELSE default

\* truth value of an optional string
Truthy(v) == v # None /\ v # ""

\* a or b
PyOr(a, b) == IF Truthy(a) THEN a ELSE b

\* a slice keeping the oldest n elements instead of the newest
OldestN(s, n) == SubSeq(s, 1, Min(n, Len(s)))

\* s[-n:] for n >= 0; note that s[-0:] is s[0:], the whole list
LastN(s, n) ==
    IF n = 0 \/ Len(s) <= n THEN s ELSE SubSeq(s, Len(s) - n + 1, Len(s))

\* s[:n]
FirstN(s, n) == SubSeq(s, 1, Min(n, Len(s)))

\* s[n:]
DropN(s, n) == SubSeq(s, n + 1, Len(s))

\* deque(maxlen=n).append(x)
DequeAppend(s, x, maxlen) ==
    IF maxlen = 0 THEN s
    ELSE IF Len(s) >= maxlen THEN Append(Tail(s), x)
    ELSE Append(s, x)

\* sum(xs) of a list of integers
RECURSIVE Sum(_)
Sum(xs) == IF xs = <<>> THEN 0 ELSE Head(xs) + Sum(Tail(xs))

\* str(bool)
BoolStr(b) == IF b THEN "True" ELSE "False"

-----------------------------------------------------------------------------
(* Risk model: anchor.py constants *)

RiskLevels == {"SAFE", "LOW", "MEDIUM", "HIGH", "CRITICAL"}

RISK_COSTS ==
    [r \in RiskLevels |->
        CASE r = "SAFE" -> 0
          [] r = "LOW" -> 50
          [] r = "MEDIUM" -> 150
          [] r = "HIGH" -> 400
          [] r = "CRITICAL" -> 1000]

RISK_TRUST_THRESHOLDS ==
    [r \in RiskLevels |->
        CASE r = "SAFE" -> 0
          [] r = "LOW" -> 200
          [] r = "MEDIUM" -> 400
          [] r = "HIGH" -> 600
          [] r = "CRITICAL" -> 800]

\* TrustLevel.from_score(score).name
TrustLevelName(score) ==
    IF score >= 950 THEN "AUTONOMOUS"
    ELSE IF score >= 800 THEN "HIGH_TRUST"
    ELSE IF score >= 600 THEN "COLLABORATIVE"
    ELSE IF score >= 400 THEN "CAUTIOUS"
    ELSE IF score >= 200 THEN "MINIMAL"
    ELSE "DISCONNECTED"

\* AnchorParams defaults
trust_boost_clean == 5
trust_boost_streak == 10
trust_boost_interaction == 50
trust_boost_checkpoint == 100
trust_penalty_warning == 20
trust_penalty_violation == 200
max_minutes_without_human == 60

\* other literals of anchor.py
StreakBonusFrom == 10
DriftBudgetPenalty == 200
LowBudgetMark == 300
CorrectionPenalty == 50
CorrectionWindow == 10
CorrectionLimit == 3

-----------------------------------------------------------------------------
(* Operation names, as the character strings the name rules of _assess_risk *)
(* look into                                                               *)

OpChars ==
    [op \in {"read_file", "send", "Delete_Row", "x", "_correction", "create_and_send",
             "Retrieval", "execute_email", "UPDATE"} |->
        CASE op = "read_file" -> <<"r", "e", "a", "d", "_", "f", "i", "l", "e">>
          [] op = "create_and_send" ->
                <<"c", "r", "e", "a", "t", "e", "_", "a", "n", "d", "_", "s", "e", "n", "d">>
          [] op = "Retrieval" -> <<"R", "e", "t", "r", "i", "e", "v", "a", "l">>
          [] op = "execute_email" ->
                <<"e", "x", "e", "c", "u", "t", "e", "_", "e", "m", "a", "i", "l">>
          [] op = "UPDATE" -> <<"U", "P", "D", "A", "T", "E">>
          [] op = "send" -> <<"s", "e", "n", "d">>
          [] op = "Delete_Row" -> <<"D", "e", "l", "e", "t", "e", "_", "R", "o", "w">>
          [] op = "x" -> <<"x">>
          [] op = "_correction" -> <<"_", "c", "o", "r", "r", "e", "c", "t", "i", "o", "n">>]

\* str.lower(), on the characters the names above use
LowerChar(c) ==
    CASE c = "D" -> "d"
      [] c = "R" -> "r"
      [] c = "U" -> "u"
      [] c = "P" -> "p"
      [] c = "A" -> "a"
      [] c = "T" -> "t"
      [] c = "E" -> "e"
      [] OTHER -> c

Lower(s) == [i \in 1..Len(s) |-> LowerChar(s[i])]

\* pattern in s
IsSubstr(pattern, s) ==
    \E i \in 1..(Len(s) - Len(pattern) + 1) : SubSeq(s, i, i + Len(pattern) - 1) = pattern

AnyIn(patterns, s) == \E p \in patterns : IsSubstr(p, s)

MediumNames1 == {<<"d","e","l","e","t","e">>, <<"r","e","m","o","v","e">>,
                 <<"d","r","o","p">>, <<"t","r","u","n","c","a","t","e">>}
LowNames == {<<"w","r","i","t","e">>, <<"u","p","d","a","t","e">>,
             <<"c","r","e","a","t","e">>, <<"i","n","s","e","r","t">>}
HighNames == {<<"s","e","n","d">>, <<"p","o","s","t">>,
              <<"e","m","a","i","l">>, <<"p","u","b","l","i","s","h">>}
MediumNames2 == {<<"e","x","e","c","u","t","e">>, <<"r","u","n">>, <<"e","v","a","l">>}

\* an _assess_risk that looks at is_write before is_external
AssessRiskWriteFirst(operation, context) ==
    IF "risk_level" \in DOMAIN context THEN context["risk_level"]
    ELSE IF Get(context, "is_write", FALSE) THEN "LOW"
    ELSE IF Get(context, "is_external", FALSE) THEN "HIGH"
    ELSE IF Get(context, "involves_phi", FALSE) THEN "HIGH"
    ELSE IF Get(context, "is_destructive", FALSE) THEN "MEDIUM"
    ELSE LET op_lower == Lower(OpChars[operation]) IN
         IF AnyIn(MediumNames1, op_lower) THEN "MEDIUM"
         ELSE IF AnyIn(LowNames, op_lower) THEN "LOW"
         ELSE IF AnyIn(HighNames, op_lower) THEN "HIGH"
         ELSE IF AnyIn(MediumNames2, op_lower) THEN "MEDIUM"
         ELSE "SAFE"

\* SmartAnchor._assess_risk
AssessRisk(operation, context) ==
    IF "risk_level" \in DOMAIN context THEN context["risk_level"]
    ELSE IF Get(context, "is_external", FALSE) THEN "HIGH"
    ELSE IF Get(context, "involves_phi", FALSE) THEN "HIGH"
    ELSE IF Get(context, "is_destructive", FALSE) THEN "MEDIUM"
    ELSE IF Get(context, "is_write", FALSE) THEN "LOW"
    ELSE LET op_lower == Lower(OpChars[operation]) IN
         IF AnyIn(MediumNames1, op_lower) THEN "MEDIUM"
         ELSE IF AnyIn(LowNames, op_lower) THEN "LOW"
         ELSE IF AnyIn(HighNames, op_lower) THEN "HIGH"
         ELSE IF AnyIn(MediumNames2, op_lower) THEN "MEDIUM"
         ELSE "SAFE"

-----------------------------------------------------------------------------
(* Drift detector: five detectors over the history list, first hit wins *)

RiskValue(risk) ==
    CASE risk = "SAFE" -> 0
      [] risk = "LOW" -> 1
      [] risk = "MEDIUM" -> 2
      [] risk = "HIGH" -> 3
      [] risk = "CRITICAL" -> 4
      [] OTHER -> 0

EscalationWindow == 10
ExternalWindow == 20
ExternalFloor == 3
SpeedWindow == 10
SpeedThresholdPerMinute == 60
RepetitionThreshold == 10
WarningWindow == 10
WarningThreshold == 5

RiskValues(records) == [i \in 1..Len(records) |-> RiskValue(records[i].risk)]

\* DriftDetector.escalating_access: second_half > first_half * 1.5
escalating_access(history) ==
    IF Len(history) < EscalationWindow THEN FALSE
    ELSE LET recent == LastN(history, EscalationWindow)
             first_half == Sum(RiskValues(FirstN(recent, EscalationWindow \div 2)))
             second_half == Sum(RiskValues(DropN(recent, EscalationWindow \div 2)))
         IN  2 * second_half > 3 * first_half

ExternalCount(records) == Cardinality({i \in 1..Len(records) : records[i].external})

\* DriftDetector.external_drift
external_drift(history) ==
    IF Len(history) < ExternalWindow THEN FALSE
    ELSE LET recent == LastN(history, ExternalWindow)
             first_half == ExternalCount(FirstN(recent, ExternalWindow \div 2))
             second_half == ExternalCount(DropN(recent, ExternalWindow \div 2))
         IN  second_half > Max(first_half * 2, ExternalFloor)

\* DriftDetector.speed_drift: (len(recent) / time_span) * 60 > threshold_per_minute
speed_drift(history) ==
    IF Len(history) < SpeedWindow THEN FALSE
    ELSE LET recent == LastN(history, SpeedWindow)
             time_span == recent[Len(recent)].timestamp - recent[1].timestamp
         IN  IF time_span <= 0 THEN TRUE
             ELSE Len(recent) * 60 > SpeedThresholdPerMinute * time_span

\* DriftDetector.repetition_anomaly: most_common_count >= threshold * 0.7
repetition_anomaly(history) ==
    IF Len(history) < RepetitionThreshold THEN FALSE
    ELSE LET recent == LastN(history, RepetitionThreshold)
             named == {i \in 1..Len(recent) : Truthy(recent[i].resource)}
             CountOf(res) == Cardinality({i \in named : recent[i].resource = res})
         IN  IF named = {} THEN FALSE
             ELSE \E i \in named : 10 * CountOf(recent[i].resource) >= RepetitionThreshold * 7

\* a list-valued url, kept as its repr: truthy and unhashable
UnhashableUrl == "['http://a', 'http://b']"

Hashable(v) == v # UnhashableUrl

\* DriftDetector.repetition_anomaly: Counter(resources) raises TypeError for an
\* unhashable resource
RepetitionRaises(history) ==
    /\ Len(history) >= RepetitionThreshold
    /\ LET recent == LastN(history, RepetitionThreshold)
       IN  \E i \in 1..Len(recent) :
              Truthy(recent[i].resource) /\ ~Hashable(recent[i].resource)

WarningsOf(records) == [i \in 1..Len(records) |-> records[i].warnings]

\* DriftDetector.warning_accumulation
warning_accumulation(history) ==
    IF Len(history) < WarningWindow THEN FALSE
    ELSE Sum(WarningsOf(LastN(history, WarningWindow))) >= WarningThreshold

NoDrift == [name |-> None, description |-> None, severity |-> None]

\* a drift scan whose try encloses the loop: a detector that raises ends the scan
DetectDriftStopsOnError(history) ==
    IF escalating_access(history)
    THEN [name |-> "escalating_access", description |-> "Risk levels gradually increasing",
          severity |-> "checkpoint"]
    ELSE IF external_drift(history)
    THEN [name |-> "external_drift", description |-> "External operations increasing",
          severity |-> "reduce_budget"]
    ELSE IF speed_drift(history)
    THEN [name |-> "speed_drift", description |-> "Operating faster than human can track",
          severity |-> "slow_down"]
    ELSE IF RepetitionRaises(history) THEN NoDrift
    ELSE IF repetition_anomaly(history)
    THEN [name |-> "repetition_anomaly", description |-> "Same resource accessed repeatedly",
          severity |-> "checkpoint"]
    ELSE IF warning_accumulation(history)
    THEN [name |-> "warning_accumulation", description |-> "Too many advisory warnings",
          severity |-> "checkpoint"]
    ELSE NoDrift

\* SmartAnchor._detect_drift over DRIFT_PATTERNS; a detector that raises is skipped
DetectDrift(history) ==
    IF escalating_access(history)
    THEN [name |-> "escalating_access", description |-> "Risk levels gradually increasing",
          severity |-> "checkpoint"]
    ELSE IF external_drift(history)
    THEN [name |-> "external_drift", description |-> "External operations increasing",
          severity |-> "reduce_budget"]
    ELSE IF speed_drift(history)
    THEN [name |-> "speed_drift", description |-> "Operating faster than human can track",
          severity |-> "slow_down"]
    ELSE IF ~RepetitionRaises(history) /\ repetition_anomaly(history)
    THEN [name |-> "repetition_anomaly", description |-> "Same resource accessed repeatedly",
          severity |-> "checkpoint"]
    ELSE IF warning_accumulation(history)
    THEN [name |-> "warning_accumulation", description |-> "Too many advisory warnings",
          severity |-> "checkpoint"]
    ELSE NoDrift

-----------------------------------------------------------------------------
(* Smart anchor *)

\* SmartAnchor.__init__ with AnchorState defaults
NewAnchor(initial_trust, budget_size, history_size, t) ==
    [risk_budget |-> budget_size,
     trust_score |-> initial_trust,
     last_checkpoint |-> t,
     last_human_interaction |-> t,
     consecutive_clean_ops |-> 0,
     total_ops_since_checkpoint |-> 0,
     warnings_since_checkpoint |-> 0,
     history |-> <<>>,
     budget_size |-> budget_size,
     history_size |-> history_size,
     violation_callbacks |-> <<>>]

\* RISK_COSTS[risk] / RISK_TRUST_THRESHOLDS[risk] raise KeyError for an unknown level
KeyError == [raised |-> TRUE, error |-> "KeyError"]

Deny(a, tag, detail, risk) ==
    [raised |-> FALSE,
     can_proceed |-> FALSE,
     reason |-> [tag |-> tag, detail |-> detail],
     risk_level |-> risk,
     budget_after |-> a.risk_budget,
     trust_level |-> TrustLevelName(a.trust_score),
     warnings |-> <<>>]

\* pre_operation: "CRITICAL always requires checkpoint"
NotSentinel(risk) == FALSE

IsSentinel(risk) == risk = "CRITICAL"

\* a pre_operation that looks at the budget before the trust threshold
PreOperationBudgetFirst(a, t, operation, context) ==
    LET risk == AssessRisk(operation, context) IN
    IF risk \notin RiskLevels THEN KeyError
    ELSE IF IsSentinel(risk) THEN Deny(a, "critical", None, risk)
    ELSE
    LET drift == DetectDrift(a.history)
    IN  IF a.risk_budget - RISK_COSTS[risk] < 0 THEN Deny(a, "budget", None, risk)
        ELSE IF a.trust_score < RISK_TRUST_THRESHOLDS[risk] THEN Deny(a, "trust", None, risk)
        ELSE IF drift # NoDrift /\ drift.severity = "checkpoint"
             THEN Deny(a, "drift", drift.name, risk)
        ELSE IF t - a.last_human_interaction > max_minutes_without_human * 60
                /\ risk \in {"MEDIUM", "HIGH"}
             THEN Deny(a, "no_human", None, risk)
        ELSE [raised |-> FALSE,
              can_proceed |-> TRUE,
              reason |-> [tag |-> "proceed", detail |-> None],
              risk_level |-> risk,
              budget_after |-> a.risk_budget - RISK_COSTS[risk],
              trust_level |-> TrustLevelName(a.trust_score),
              warnings |-> IF drift # NoDrift
                           THEN << <<"Drift warning", drift.name>> >>
                           ELSE <<>>]

\* SmartAnchor.pre_operation; reason tags stand for the reason strings:
\*   critical  "Critical operation requires human confirmation"
\*   trust     "Trust (..) below threshold (..) for .. operations"
\*   budget    "Risk budget depleted (..). Checkpoint required."
\*   drift     "Drift pattern detected: <name> - <description>"
\*   no_human  "No human interaction for .. minutes. Checkpoint for .. operations."
PreOperation(a, t, operation, context) ==
    LET risk == AssessRisk(operation, context) IN
    IF risk \notin RiskLevels THEN KeyError
    ELSE IF IsSentinel(risk) THEN Deny(a, "critical", None, risk)
    ELSE
    LET cost == RISK_COSTS[risk]
        min_trust == RISK_TRUST_THRESHOLDS[risk]
        budget_after == a.risk_budget - cost
        drift == DetectDrift(a.history)
        time_since_human == t - a.last_human_interaction
    IN  IF a.trust_score < min_trust THEN Deny(a, "trust", None, risk)
        ELSE IF budget_after < 0 THEN Deny(a, "budget", None, risk)
        ELSE IF drift # NoDrift /\ drift.severity = "checkpoint"
             THEN Deny(a, "drift", drift.name, risk)
        ELSE IF time_since_human > max_minutes_without_human * 60
                /\ risk \in {"MEDIUM", "HIGH"}
             THEN Deny(a, "no_human", None, risk)
        ELSE [raised |-> FALSE,
              can_proceed |-> TRUE,
              reason |-> [tag |-> "proceed", detail |-> None],
              risk_level |-> risk,
              budget_after |-> budget_after,
              trust_level |-> TrustLevelName(a.trust_score),
              warnings |-> IF drift # NoDrift
                           THEN << <<"Drift warning", drift.name>> >>
                           ELSE <<>>]

\* SmartAnchor._can_proceed_for_risk
CanProceedForRisk(a, risk) ==
    LET cost == IF risk \in RiskLevels THEN RISK_COSTS[risk] ELSE One
        min_trust == IF risk \in RiskLevels THEN RISK_TRUST_THRESHOLDS[risk] ELSE One
    IN  IF risk = "CRITICAL" THEN FALSE
        ELSE a.trust_score >= min_trust /\ a.risk_budget >= cost

\* SmartAnchor._hash_context: ":".join of four parts, kept as the four parts
HashContext(context) ==
    <<Get(context, "operation", ""), Get(context, "path", ""),
      Get(context, "resource", ""), BoolStr(Get(context, "is_external", FALSE))>>

\* OperationRecord built by post_operation
MakeRecord(t, operation, risk, context, advisory_warnings) ==
    [operation |-> operation,
     risk |-> risk,
     timestamp |-> t,
     context_hash |-> HashContext(context),
     resource |-> PyOr(PyOr(Get(context, "path", None), Get(context, "resource", None)),
                       Get(context, "url", None)),
     external |-> Get(context, "is_external", FALSE),
     warnings |-> advisory_warnings]

\* the trust update of post_operation without its clamp
UnclampedTrust(x) == x

\* max(0.0, min(1.0, x))
ClampTrust(x) == Max(0, Min(One, x))

\* the drift deduction without its floor
UnflooredDriftDebit(budget) == budget - DriftBudgetPenalty

\* max(0, risk_budget - 0.2)
DriftDebit(budget) == Max(0, budget - DriftBudgetPenalty)

\* a SAFE cost that is not zero
CostOfCharged(risk) == IF risk = "SAFE" THEN 50 ELSE RISK_COSTS[risk]

\* cost = RISK_COSTS[risk]
CostOf(risk) == RISK_COSTS[risk]

\* a post_operation whose violation branch also counts the advisory warnings
PostOperationCountsWarnings(a, t, operation, context, advisory_warnings, constraint_violation) ==
    LET risk == AssessRisk(operation, context) IN
    IF risk \notin RiskLevels THEN KeyError
    ELSE
    LET cost == CostOf(risk)
        budget1 == Max(0, a.risk_budget - cost)
        history1 == DequeAppend(a.history,
                                MakeRecord(t, operation, risk, context, advisory_warnings),
                                a.history_size)
        trust_delta ==
            IF constraint_violation THEN 0 - trust_penalty_violation
            ELSE IF advisory_warnings > 0 THEN 0 - trust_penalty_warning * advisory_warnings
            ELSE trust_boost_clean
                 + (IF a.consecutive_clean_ops + 1 >= StreakBonusFrom
                    THEN trust_boost_streak ELSE 0)
        clean1 ==
            IF constraint_violation \/ advisory_warnings > 0 THEN 0
            ELSE a.consecutive_clean_ops + 1
        warnings1 ==
            IF advisory_warnings > 0
            THEN a.warnings_since_checkpoint + advisory_warnings
            ELSE a.warnings_since_checkpoint
        trust1 == ClampTrust(a.trust_score + trust_delta)
        drift == DetectDrift(history1)
        budget2 ==
            IF drift # NoDrift /\ drift.severity = "reduce_budget"
            THEN DriftDebit(budget1) ELSE budget1
        recommendations ==
            (IF constraint_violation THEN <<"violation_checkpoint">> ELSE <<>>)
            \o (IF drift # NoDrift /\ drift.severity = "reduce_budget"
                THEN <<"budget_reduced">>
                ELSE IF drift # NoDrift /\ drift.severity = "slow_down"
                THEN <<"slow_down">> ELSE <<>>)
            \o (IF budget2 < LowBudgetMark THEN <<"low_budget">> ELSE <<>>)
    IN  [raised |-> FALSE,
         anchor |-> [a EXCEPT !.risk_budget = budget2,
                              !.total_ops_since_checkpoint = @ + 1,
                              !.history = history1,
                              !.consecutive_clean_ops = clean1,
                              !.warnings_since_checkpoint = warnings1,
                              !.trust_score = trust1],
         result |-> [valid |-> ~constraint_violation,
                     trust_delta |-> trust_delta,
                     budget_remaining |-> budget2,
                     drift_detected |-> drift.name,
                     recommendations |-> recommendations]]

\* a post_operation that takes the drift debit for a pattern of any severity
PostOperationDebitsAnyDrift(a, t, operation, context, advisory_warnings, constraint_violation) ==
    LET risk == AssessRisk(operation, context) IN
    IF risk \notin RiskLevels THEN KeyError
    ELSE
    LET cost == CostOf(risk)
        budget1 == Max(0, a.risk_budget - cost)
        history1 == DequeAppend(a.history,
                                MakeRecord(t, operation, risk, context, advisory_warnings),
                                a.history_size)
        trust_delta ==
            IF constraint_violation THEN 0 - trust_penalty_violation
            ELSE IF advisory_warnings > 0 THEN 0 - trust_penalty_warning * advisory_warnings
            ELSE trust_boost_clean
                 + (IF a.consecutive_clean_ops + 1 >= StreakBonusFrom
                    THEN trust_boost_streak ELSE 0)
        clean1 ==
            IF constraint_violation \/ advisory_warnings > 0 THEN 0
            ELSE a.consecutive_clean_ops + 1
        warnings1 ==
            IF ~constraint_violation /\ advisory_warnings > 0
            THEN a.warnings_since_checkpoint + advisory_warnings
            ELSE a.warnings_since_checkpoint
        trust1 == ClampTrust(a.trust_score + trust_delta)
        drift == DetectDrift(history1)
        budget2 ==
            IF drift # NoDrift
            THEN DriftDebit(budget1) ELSE budget1
        recommendations ==
            (IF constraint_violation THEN <<"violation_checkpoint">> ELSE <<>>)
            \o (IF drift # NoDrift /\ drift.severity = "reduce_budget"
                THEN <<"budget_reduced">>
                ELSE IF drift # NoDrift /\ drift.severity = "slow_down"
                THEN <<"slow_down">> ELSE <<>>)
            \o (IF budget2 < LowBudgetMark THEN <<"low_budget">> ELSE <<>>)
    IN  [raised |-> FALSE,
         anchor |-> [a EXCEPT !.risk_budget = budget2,
                              !.total_ops_since_checkpoint = @ + 1,
                              !.history = history1,
                              !.consecutive_clean_ops = clean1,
                              !.warnings_since_checkpoint = warnings1,
                              !.trust_score = trust1],
         result |-> [valid |-> ~constraint_violation,
                     trust_delta |-> trust_delta,
                     budget_remaining |-> budget2,
                     drift_detected |-> drift.name,
                     recommendations |-> recommendations]]

\* SmartAnchor.post_operation: the new anchor and the PostCheckResult
PostOperation(a, t, operation, context, advisory_warnings, constraint_violation) ==
    LET risk == AssessRisk(operation, context) IN
    IF risk \notin RiskLevels THEN KeyError
    ELSE
    LET cost == CostOf(risk)
        budget1 == Max(0, a.risk_budget - cost)
        history1 == DequeAppend(a.history,
                                MakeRecord(t, operation, risk, context, advisory_warnings),
                                a.history_size)
        trust_delta ==
            IF constraint_violation THEN 0 - trust_penalty_violation
            ELSE IF advisory_warnings > 0 THEN 0 - trust_penalty_warning * advisory_warnings
            ELSE trust_boost_clean
                 + (IF a.consecutive_clean_ops + 1 >= StreakBonusFrom
                    THEN trust_boost_streak ELSE 0)
        clean1 ==
            IF constraint_violation \/ advisory_warnings > 0 THEN 0
            ELSE a.consecutive_clean_ops + 1
        warnings1 ==
            IF ~constraint_violation /\ advisory_warnings > 0
            THEN a.warnings_since_checkpoint + advisory_warnings
            ELSE a.warnings_since_checkpoint
        trust1 == ClampTrust(a.trust_score + trust_delta)
        drift == DetectDrift(history1)
        budget2 ==
            IF drift # NoDrift /\ drift.severity = "reduce_budget"
            THEN DriftDebit(budget1) ELSE budget1
        recommendations ==
            (IF constraint_violation THEN <<"violation_checkpoint">> ELSE <<>>)
            \o (IF drift # NoDrift /\ drift.severity = "reduce_budget"
                THEN <<"budget_reduced">>
                ELSE IF drift # NoDrift /\ drift.severity = "slow_down"
                THEN <<"slow_down">> ELSE <<>>)
            \o (IF budget2 < LowBudgetMark THEN <<"low_budget">> ELSE <<>>)
    IN  [raised |-> FALSE,
         anchor |-> [a EXCEPT !.risk_budget = budget2,
                              !.total_ops_since_checkpoint = @ + 1,
                              !.history = history1,
                              !.consecutive_clean_ops = clean1,
                              !.warnings_since_checkpoint = warnings1,
                              !.trust_score = trust1],
         result |-> [valid |-> ~constraint_violation,
                     trust_delta |-> trust_delta,
                     budget_remaining |-> budget2,
                     drift_detected |-> drift.name,
                     recommendations |-> recommendations]]

\* SmartAnchor.human_interacted
HumanInteracted(a, t) ==
    [a EXCEPT !.last_human_interaction = t,
              !.trust_score = Min(One, @ + trust_boost_interaction)]

\* human_checkpoint leaving the spent budget in place
HumanCheckpointNoReset(a, t) ==
    [a EXCEPT !.trust_score = Min(One, @ + trust_boost_checkpoint),
              !.last_checkpoint = t,
              !.last_human_interaction = t,
              !.total_ops_since_checkpoint = 0,
              !.warnings_since_checkpoint = 0]

\* a human_checkpoint that also starts the clean streak over
HumanCheckpointResetsStreak(a, t) ==
    [a EXCEPT !.risk_budget = a.budget_size,
              !.trust_score = Min(One, @ + trust_boost_checkpoint),
              !.last_checkpoint = t,
              !.last_human_interaction = t,
              !.total_ops_since_checkpoint = 0,
              !.warnings_since_checkpoint = 0,
              !.consecutive_clean_ops = 0]

\* a human_checkpoint that also empties the operation history
HumanCheckpointClearsHistory(a, t) ==
    [a EXCEPT !.risk_budget = a.budget_size,
              !.trust_score = Min(One, @ + trust_boost_checkpoint),
              !.last_checkpoint = t,
              !.last_human_interaction = t,
              !.total_ops_since_checkpoint = 0,
              !.warnings_since_checkpoint = 0,
              !.history = <<>>]

\* SmartAnchor.human_checkpoint
HumanCheckpoint(a, t) ==
    [a EXCEPT !.risk_budget = a.budget_size,
              !.trust_score = Min(One, @ + trust_boost_checkpoint),
              !.last_checkpoint = t,
              !.last_human_interaction = t,
              !.total_ops_since_checkpoint = 0,
              !.warnings_since_checkpoint = 0]

CorrectionRecord(t) ==
    [operation |-> "_correction",
     risk |-> "SAFE",
     timestamp |-> t,
     context_hash |-> <<"correction">>,
     resource |-> None,
     external |-> FALSE,
     warnings |-> 0]

\* SmartAnchor.human_corrected: the corrections are counted before the new record is appended
HumanCorrected(a, t) ==
    LET a1 == HumanInteracted(a, t)
        window == LastN(a1.history, CorrectionWindow)
        recent_corrections ==
            Cardinality({i \in 1..Len(window) : window[i].operation = "_correction"})
        trust1 ==
            IF recent_corrections > CorrectionLimit
            THEN Max(0, a1.trust_score - CorrectionPenalty) ELSE a1.trust_score
    IN  [a1 EXCEPT !.trust_score = trust1,
                   !.history = DequeAppend(a1.history, CorrectionRecord(t), a1.history_size)]

\* SmartAnchor.on_violation; nothing in anchor.py calls _notify_violation, the
\* only reader of violation_callbacks
OnViolation(a, callback) == [a EXCEPT !.violation_callbacks = Append(@, callback)]

-----------------------------------------------------------------------------
(* Constraint validator *)

\* the predicates of the constraints registered in this model
CheckOutcome(check, context) ==
    CASE check = "never" -> "false"                          \* lambda ctx: False
      [] check = "always" -> "true"                          \* lambda ctx: True
      [] check = "authenticated" ->                          \* lambda ctx: ctx.get("authenticated", False)
            IF Get(context, "authenticated", FALSE) THEN "true" ELSE "false"
      [] check = "raises" -> "raise"                         \* a predicate that raises

\* f"Constraint '{self.name}' not satisfied"
NotSatisfiedMessage(name) ==
    CASE name = "Mandatory Block" -> "Constraint 'Mandatory Block' not satisfied"
      [] name = "Required Block" -> "Constraint 'Required Block' not satisfied"
      [] name = "Advisory Warning" -> "Constraint 'Advisory Warning' not satisfied"
      [] name = "Auth Check" -> "Constraint 'Auth Check' not satisfied"
      [] name = "Broken Check" -> "Constraint 'Broken Check' not satisfied"

\* evaluate with a raising check taken as satisfied
EvaluateFailOpen(c, context, t) ==
    LET outcome == CheckOutcome(c.check, context) IN
    [constraint_id |-> c.id, satisfied |-> (outcome # "false"), severity |-> c.severity,
     message |-> IF outcome # "false" THEN None
                 ELSE IF c.error_message # "" THEN c.error_message
                 ELSE NotSatisfiedMessage(c.name),
     evaluated_at |-> t]

\* Constraint.evaluate
Evaluate(c, context, t) ==
    LET outcome == CheckOutcome(c.check, context) IN
    IF outcome = "raise"
    THEN [constraint_id |-> c.id, satisfied |-> FALSE, severity |-> c.severity,
          message |-> "Constraint evaluation error: boom", evaluated_at |-> t]
    ELSE [constraint_id |-> c.id, satisfied |-> (outcome = "true"), severity |-> c.severity,
          message |-> IF outcome = "true" THEN None
                      ELSE IF c.error_message # "" THEN c.error_message
                      ELSE NotSatisfiedMessage(c.name),
          evaluated_at |-> t]

\* ValidationResult.mandatory_failures / required_failures / advisory_failures
mandatory_failures(v) ==
    SelectSeq(v.results, LAMBDA r : ~r.satisfied /\ r.severity = "MANDATORY")

required_failures(v) ==
    SelectSeq(v.results, LAMBDA r : ~r.satisfied /\ r.severity = "REQUIRED")

advisory_failures(v) ==
    SelectSeq(v.results, LAMBDA r : ~r.satisfied /\ r.severity = "ADVISORY")

\* `not self.override_justification`: None and "" are both falsy
HasJustification(v) == Truthy(v.override_justification)

\* can_execute with the justification overriding every failure
can_execute_overridable(v) ==
    IF HasJustification(v) THEN TRUE
    ELSE mandatory_failures(v) = <<>> /\ required_failures(v) = <<>>

\* can_execute refusing every required failure, justified or not
can_execute_unjustifiable(v) ==
    mandatory_failures(v) = <<>> /\ required_failures(v) = <<>>

\* ValidationResult.can_execute
can_execute(v) ==
    IF mandatory_failures(v) # <<>> THEN FALSE
    ELSE IF required_failures(v) # <<>> /\ ~HasJustification(v) THEN FALSE
    ELSE TRUE

\* ValidationResult.warnings
warnings(v) ==
    LET adv == advisory_failures(v)
        req == required_failures(v)
    IN  [i \in 1..Len(adv) |-> <<"[ADVISORY]", adv[i].message>>]
        \o (IF req # <<>> /\ HasJustification(v)
            THEN [i \in 1..Len(req) |->
                     <<"[OVERRIDDEN]", req[i].message, v.override_justification>>]
            ELSE <<>>)

\* blocking_errors listing the required failures whatever the justification
blocking_errors_unoverridable(v) ==
    LET man == mandatory_failures(v)
        req == required_failures(v)
    IN  [i \in 1..Len(man) |-> <<"[MANDATORY]", man[i].message>>]
        \o [i \in 1..Len(req) |-> <<"[REQUIRED]", req[i].message>>]

\* ValidationResult.blocking_errors
blocking_errors(v) ==
    LET man == mandatory_failures(v)
        req == required_failures(v)
    IN  [i \in 1..Len(man) |-> <<"[MANDATORY]", man[i].message>>]
        \o (IF req # <<>> /\ ~HasJustification(v)
            THEN [i \in 1..Len(req) |-> <<"[REQUIRED]", req[i].message>>]
            ELSE <<>>)

\* ConstraintValidator.__init__
NewValidator == [constraints |-> <<>>, operation_constraints |-> <<>>, history |-> <<>>]

\* ConstraintValidator.register; operations is None or a list of operation names
Register(v, c, operations) ==
    LET RECURSIVE Scope(_, _)
        Scope(oc, ops) ==
            IF ops = <<>> THEN oc
            ELSE LET op == Head(ops)
                     old == IF op \in DOMAIN oc THEN oc[op] ELSE <<>>
                 IN  Scope((op :> Append(old, c.id)) @@ oc, Tail(ops))
    IN  [v EXCEPT !.constraints = (c.id :> c) @@ v.constraints,
                  !.operation_constraints =
                      IF operations # None /\ operations # <<>>
                      THEN Scope(v.operation_constraints, operations) ELSE @]

RECURSIVE SetToSeq(_)
SetToSeq(S) == IF S = {} THEN <<>> ELSE LET x == CHOOSE y \in S : TRUE
                                        IN  <<x>> \o SetToSeq(S \ {x})

\* get_applicable_constraints taking every registered constraint, whatever its scope
ApplicableIdsAll(v, operation) == SetToSeq(DOMAIN v.constraints)

\* get_applicable_constraints returning global_ids + specific_ids without set()
ApplicableIdsNoSet(v, operation) ==
    LET scoped == UNION {{v.operation_constraints[op][i] :
                             i \in 1..Len(v.operation_constraints[op])} :
                         op \in DOMAIN v.operation_constraints}
        global_ids == {cid \in DOMAIN v.constraints : cid \notin scoped}
        specific == IF operation \in DOMAIN v.operation_constraints
                    THEN v.operation_constraints[operation] ELSE <<>>
    IN  SetToSeq(global_ids) \o specific

\* ConstraintValidator.get_applicable_constraints: the ids, in the (arbitrary) order of set()
ApplicableIds(v, operation) ==
    LET scoped == UNION {{v.operation_constraints[op][i] :
                             i \in 1..Len(v.operation_constraints[op])} :
                         op \in DOMAIN v.operation_constraints}
        global_ids == {cid \in DOMAIN v.constraints : cid \notin scoped}
        specific == IF operation \in DOMAIN v.operation_constraints
                    THEN v.operation_constraints[operation] ELSE <<>>
        specific_ids == {specific[i] : i \in 1..Len(specific)}
    IN  SetToSeq({cid \in global_ids \cup specific_ids : cid \in DOMAIN v.constraints})

\* ConstraintValidator.validate: the ValidationResult
Validate(v, t, operation, context, override_justification) ==
    LET ids == ApplicableIds(v, operation) IN
    [operation |-> operation,
     results |-> [i \in 1..Len(ids) |-> Evaluate(v.constraints[ids[i]], context, t)],
     override_justification |-> override_justification]

-----------------------------------------------------------------------------
(* Guard facade *)

Modes == {"disabled", "shadow", "soft", "enforce"}

MaxSamples == 1000

\* GuardMetrics()
NewMetrics ==
    [total_checks |-> 0,
     would_block_count |-> 0,
     actually_blocked_count |-> 0,
     shadow_passes |-> 0,
     by_risk_level |-> [r \in RiskLevels |-> 0],
     by_operation |-> <<>>,
     trust_score_samples |-> <<>>,
     budget_samples |-> <<>>]

\* EquilibriumGuard.__init__
NewGuard(mode, log_decisions, max_decision_history) ==
    [mode |-> mode,
     log_decisions |-> log_decisions,
     max_decision_history |-> max_decision_history,
     metrics |-> NewMetrics,
     decision_history |-> <<>>,
     decision_callbacks |-> <<>>]

\* a decision subscriber: a callable that keeps what it was called with; a "raiser"
\* raises an Exception after that, a "bridge" is DashboardBridge._on_decision
NewCallback(kind) == [kind |-> kind, seen |-> <<>>]

\* EquilibriumGuard.on_decision
OnDecision(g, callback) ==
    [g EXCEPT !.decision_callbacks = Append(@, callback)]

\* GuardMetrics.record
MetricsRecord(m, decision) ==
    LET trust1 == Append(m.trust_score_samples, decision.trust_score)
        budget1 == Append(m.budget_samples, decision.budget_remaining)
        over == Len(trust1) > MaxSamples
    IN  [total_checks |-> m.total_checks + 1,
         would_block_count |-> m.would_block_count + (IF decision.would_block THEN 1 ELSE 0),
         actually_blocked_count |->
             m.actually_blocked_count + (IF decision.actually_blocked THEN 1 ELSE 0),
         shadow_passes |->
             m.shadow_passes
             + (IF ~decision.actually_blocked /\ decision.would_block THEN 1 ELSE 0),
         by_risk_level |->
             IF decision.risk_level \in DOMAIN m.by_risk_level
             THEN [m.by_risk_level EXCEPT ![decision.risk_level] = @ + 1]
             ELSE m.by_risk_level,
         by_operation |->
             (decision.operation :>
                 (IF decision.operation \in DOMAIN m.by_operation
                  THEN m.by_operation[decision.operation] ELSE 0) + 1)
             @@ m.by_operation,
         trust_score_samples |-> IF over THEN LastN(trust1, MaxSamples) ELSE trust1,
         budget_samples |-> IF over THEN LastN(budget1, MaxSamples) ELSE budget1]

\* _should_actually_block with the shadow and soft branches exchanged
ShouldActuallyBlockSwapped(mode, would_block, risk_level) ==
    IF ~would_block THEN FALSE
    ELSE IF mode = "disabled" THEN FALSE
    ELSE IF mode = "soft" THEN FALSE
    ELSE IF mode = "shadow" THEN risk_level \in {"HIGH", "CRITICAL"}
    ELSE TRUE

\* _should_actually_block with soft treated as enforce
ShouldActuallyBlockStrict(mode, would_block, risk_level) ==
    IF ~would_block THEN FALSE
    ELSE IF mode = "disabled" THEN FALSE
    ELSE IF mode = "shadow" THEN FALSE
    ELSE TRUE

\* _should_actually_block with soft blocking HIGH only
ShouldActuallyBlockSoftHighOnly(mode, would_block, risk_level) ==
    IF ~would_block THEN FALSE
    ELSE IF mode = "disabled" THEN FALSE
    ELSE IF mode = "shadow" THEN FALSE
    ELSE IF mode = "soft" THEN risk_level \in {"HIGH"}
    ELSE TRUE

\* EquilibriumGuard._should_actually_block
ShouldActuallyBlock(mode, would_block, risk_level) ==
    IF ~would_block THEN FALSE
    ELSE IF mode = "disabled" THEN FALSE
    ELSE IF mode = "shadow" THEN FALSE
    ELSE IF mode = "soft" THEN risk_level \in {"HIGH", "CRITICAL"}
    ELSE TRUE

\* EquilibriumGuard._get_risk_level
GetRiskLevel(operation, context) ==
    IF "risk_level" \in DOMAIN context THEN context["risk_level"]
    ELSE AssessRisk(operation, context)

SafeKeys == {"operation", "risk_level", "path", "resource", "is_external",
             "is_write", "is_destructive", "user_id"}

\* a summary that copies the whole context
SummarizeContextAll(context) == context

\* EquilibriumGuard._summarize_context
SummarizeContext(context) == [k \in DOMAIN context \cap SafeKeys |-> context[k]]

\* _record_decision with the exception of a callback leaving the loop
CallbackErrorPropagates(callback) == callback.kind = "raiser"

\* _record_decision: `except Exception: pass` around each callback, no exception
\* of a callback leaves the loop
CallbackErrorEscapes(callback) == FALSE

\* _record_decision: `for callback in self._decision_callbacks`, from the i-th on
RECURSIVE NotifyFrom(_, _, _)
NotifyFrom(callbacks, decision, i) ==
    IF i > Len(callbacks) THEN callbacks
    ELSE LET called == [callbacks EXCEPT ![i].seen = Append(@, decision)] IN
         IF CallbackErrorEscapes(callbacks[i]) THEN called
         ELSE NotifyFrom(called, decision, i + 1)

\* EquilibriumGuard._record_decision: metrics, then the bounded decision history,
\* then the callbacks
RecordDecision(g, decision) ==
    LET appended == Append(g.decision_history, decision) IN
    [g EXCEPT !.metrics = MetricsRecord(g.metrics, decision),
              !.decision_history =
                  IF ~g.log_decisions THEN @
                  ELSE IF Len(appended) > g.max_decision_history
                  THEN LastN(appended, g.max_decision_history)
                  ELSE appended,
              !.decision_callbacks = NotifyFrom(@, decision, 1)]

\* EquilibriumGuard.pre_check from "Determine if we would block" on: the decision,
\* its recording and the returned pair
PreCheckDecide(g, a, v, t, operation, context, risk_level, anchor_check, compliance_result) ==
    LET anchor_issues ==
            IF ~anchor_check.can_proceed
            THEN << <<"[ANCHOR]", anchor_check.reason.tag, anchor_check.reason.detail>> >>
            ELSE <<>>
        issues == anchor_issues
                  \o (IF ~can_execute(compliance_result)
                      THEN blocking_errors(compliance_result) ELSE <<>>)
        warns == anchor_check.warnings \o warnings(compliance_result)
        would_block == Len(issues) > 0
        actually_block == ShouldActuallyBlock(g.mode, would_block, risk_level)
        decision ==
            [timestamp |-> t,
             operation |-> operation,
             mode |-> g.mode,
             risk_level |-> risk_level,
             would_block |-> would_block,
             actually_blocked |-> actually_block,
             reasons |-> IF issues # <<>> THEN issues ELSE warns,
             context_summary |-> SummarizeContext(context),
             trust_score |-> a.trust_score,
             budget_remaining |-> a.risk_budget]
    IN  [raised |-> FALSE, recorded |-> TRUE,
         allowed |-> ~actually_block,
         messages |-> IF actually_block THEN issues ELSE warns,
         anchor_denied |-> ~anchor_check.can_proceed,
         compliance_result |-> compliance_result,
         decision |-> decision,
         guard |-> RecordDecision(g, decision),
         validator |-> [v EXCEPT !.history = Append(@, compliance_result)]]

\* EquilibriumGuard.pre_check after the anchor pre-check: an exception of
\* anchor.pre_operation leaves before validator.validate is called
PreCheckValidate(g, a, v, t, operation, context, override_justification, risk_level, anchor_check) ==
    IF anchor_check.raised
    THEN [raised |-> TRUE, error |-> anchor_check.error, guard |-> g, validator |-> v]
    ELSE PreCheckDecide(g, a, v, t, operation, context, risk_level, anchor_check,
                        Validate(v, t, operation, context, override_justification))

\* EquilibriumGuard.pre_check: what it returns and the guard and validator it leaves
PreCheck(g, a, v, t, operation, context, override_justification) ==
    IF g.mode = "disabled"
    THEN [raised |-> FALSE, recorded |-> FALSE, allowed |-> TRUE, messages |-> <<>>,
          guard |-> g, validator |-> v]
    ELSE PreCheckValidate(g, a, v, t, operation, context, override_justification,
                          GetRiskLevel(operation, context),
                          PreOperation(a, t, operation, context))

-----------------------------------------------------------------------------
(* Dashboard bridge *)

\* DashboardBridge.__init__: _queue is None (0), no thread; `wire` lists the HTTP
\* requests made so far and `enqueued` counts the puts of decision events
NewBridge(async_mode) ==
    [async_mode |-> async_mode,
     connected |-> FALSE,
     queue |-> 0,
     queues |-> <<>>,
     workers |-> <<>>,
     wire |-> <<>>,
     enqueued |-> 0]

\* the None that disconnect puts on the queue to stop the worker
StopItem == [type |-> "stop", seq |-> 0, operation |-> ""]

\* requests.post(url, json, timeout=1) inside try/except Exception: the request
\* is logged with the thread that made it; ok = FALSE is a failed or timed-out
\* post, which is printed and swallowed
Post(b, endpoint, seq, thread, ok) ==
    [b EXCEPT !.wire = Append(@, [endpoint |-> endpoint, seq |-> seq,
                                   thread |-> thread, ok |-> ok])]

\* DashboardBridge._send_decision(data) on the given thread
SendDecision(b, item, thread, ok) == Post(b, "decision", item.seq, thread, ok)

\* DashboardBridge._send_state() on the given thread
SendState(b, thread, ok) == Post(b, "state", 0, thread, ok)

\* self._queue.put(item)
QueuePut(b, item) == [b EXCEPT !.queues[b.queue] = Append(@, item)]

\* DashboardBridge._send_alert(data) on the given thread
SendAlert(b, item, thread, ok) == Post(b, "alert", item.seq, thread, ok)

\* DashboardBridge.connect(): the bridge, the guard and the anchor it leaves
Connect(b, g, a, ok) ==
    IF b.connected
    THEN [bridge |-> b, guard |-> g, anchor |-> a]
    ELSE LET started ==
                 IF b.async_mode
                 THEN [b EXCEPT !.queues = Append(@, <<>>),
                                !.queue = Len(b.queues) + 1,
                                !.workers = Append(@, [pc |-> "loop", queue |-> 0,
                                                       item |-> StopItem])]
                 ELSE b
         IN  [bridge |-> [SendState(started, "caller", ok) EXCEPT !.connected = TRUE],
              guard |-> OnDecision(g, NewCallback("bridge")),
              anchor |-> OnViolation(a, NewCallback("bridge"))]

\* DashboardBridge.disconnect()
Disconnect(b) ==
    LET off == [b EXCEPT !.connected = FALSE]
    IN  IF b.queue # 0 THEN QueuePut(off, StopItem) ELSE off

\* DashboardBridge._on_decision(decision), run by the guard on the caller's thread
BridgeOnDecision(b, decision, ok) ==
    LET item == [type |-> "decision", seq |-> b.enqueued + 1,
                 operation |-> decision.operation]
        counted == [b EXCEPT !.enqueued = @ + 1]
    IN  IF b.async_mode
        THEN QueuePut(counted, item)
        ELSE SendDecision(counted, item, "caller", ok)

\* DashboardBridge._on_drift(violation_type, details), for whoever calls the
\* anchor's violation callbacks
BridgeOnDrift(b, violation_type, ok) ==
    LET item == [type |-> "alert", seq |-> b.enqueued + 1, operation |-> violation_type]
        counted == [b EXCEPT !.enqueued = @ + 1]
    IN  IF b.async_mode
        THEN QueuePut(counted, item)
        ELSE SendAlert(counted, item, "caller", ok)

\* the guard's callback loop reaches every registration of the bridge's callback
RECURSIVE BridgeNotifyFrom(_, _, _, _, _)
BridgeNotifyFrom(b, callbacks, decision, ok, i) ==
    IF i > Len(callbacks)
    THEN b
    ELSE BridgeNotifyFrom(IF callbacks[i].kind = "bridge"
                          THEN BridgeOnDecision(b, decision, ok)
                          ELSE b,
                          callbacks, decision, ok, i + 1)

\* DashboardBridge._worker at `item = self._queue.get()`: thread w reads
\* self._queue when it starts the call and stays on that queue while it waits
WorkerQueue(b, w) == IF b.workers[w].pc = "blocked" THEN b.workers[w].queue ELSE b.queue

WorkerCanGet(b, w) == b.workers[w].pc \in {"loop", "blocked"}

WorkerGet(b, w) ==
    LET q == WorkerQueue(b, w)
    IN  IF b.queues[q] = <<>>
        THEN [b EXCEPT !.workers[w].pc = "blocked", !.workers[w].queue = q]
        ELSE LET item == Head(b.queues[q])
                 taken == [b EXCEPT !.queues[q] = Tail(@)]
             IN  IF item.type = "stop"
                 THEN [taken EXCEPT !.workers[w].pc = "done", !.workers[w].queue = 0]
                 ELSE [taken EXCEPT !.workers[w].pc = "send", !.workers[w].queue = 0,
                                    !.workers[w].item = item]

\* DashboardBridge._worker dispatching the item it holds, then looping
WorkerSend(b, w, ok) ==
    [(IF b.workers[w].item.type = "alert"
      THEN SendAlert(b, b.workers[w].item, "worker", ok)
      ELSE SendDecision(b, b.workers[w].item, "worker", ok))
        EXCEPT !.workers[w].pc = "loop", !.workers[w].item = StopItem]

-----------------------------------------------------------------------------
(* Inputs *)

SafePlain == <<"read_file", [risk_level |-> "SAFE"]>>

SafeExternal == <<"read_file", [risk_level |-> "SAFE", is_external |-> TRUE, resource |-> "r1"]>>

\* (operation, context) pairs the callers pass
Calls ==
    {SafePlain,
     SafeExternal,
     <<"x", [risk_level |-> "MEDIUM", path |-> "/tmp/a"]>>,
     <<"send", [risk_level |-> "HIGH"]>>,
     <<"Delete_Row", [risk_level |-> "CRITICAL"]>>,
     <<"send", [risk_level |-> "high"]>>,
     <<"x", [is_write |-> TRUE, is_external |-> TRUE]>>}

\* (advisory_warnings, constraint_violation) pairs
Outcomes == {<<0, FALSE>>, <<MaxWarnings, FALSE>>, <<MaxWarnings, TRUE>>}

Justifications == {None, "", "audit #42"}

\* seconds that pass between two calls
TickDeltas == {2, 3700}

IsSafeCall(call) == AssessRisk(call[1], call[2]) = "SAFE"

-----------------------------------------------------------------------------
(* A recorded session: n post_operation calls of one kind, two seconds apart *)

RECURSIVE Replay(_, _, _)
Replay(s, call, n) ==
    IF n = 0 THEN s
    ELSE Replay([anchor |-> PostOperation(s.anchor, s.now, call[1], call[2], 0, FALSE).anchor,
                 now |-> s.now + 2],
                call, n - 1)

\* 16 plain SAFE reads and then 3 external SAFE reads, all clean
WarmSession(initial_trust, budget_size, history_size) ==
    Replay(Replay([anchor |-> NewAnchor(initial_trust, budget_size, history_size, 0), now |-> 0],
                  SafePlain, 16),
           SafeExternal, 3)

FreshSession(initial_trust, budget_size, history_size) ==
    [anchor |-> NewAnchor(initial_trust, budget_size, history_size, 0), now |-> 0]

\* the anchors a behaviour starts from: SmartAnchor(initial_trust, budget_size, history_size),
\* fresh or after a warm session
AnchorSessions ==
    {FreshSession(700, 1000, 100),
     FreshSession(0, 1000, 100),
     FreshSession(1000, 1000, 100),
     FreshSession(700, 1000, 2),
     WarmSession(700, 1000, 100),
     WarmSession(700, 100, 100),
     FreshSession(600, 400, 100)}

-----------------------------------------------------------------------------
(* The anchor used on its own *)

InitAnchor ==
    /\ \E s \in AnchorSessions :
          /\ anchor = s.anchor
          /\ now = s.now
          /\ safeRun = s.anchor.budget_size
    /\ validator = NewValidator
    /\ guard = NewGuard("shadow", TRUE, 1000)
    /\ last = [call |-> "init"]
    /\ steps = 0
    /\ bridge = NewBridge(TRUE)

\* anchor.pre_operation(operation, context)
AnchorPre ==
    /\ steps < MaxSteps
    /\ \E call \in Calls :
          /\ last' = [call |-> "pre_operation", operation |-> call[1], context |-> call[2],
                      ret |-> PreOperation(anchor, now, call[1], call[2])]
          /\ safeRun' = IF IsSafeCall(call) THEN safeRun ELSE -1
    /\ steps' = steps + 1
    /\ UNCHANGED <<anchor, validator, guard, now, bridge>>

\* anchor.post_operation(operation, context, advisory_warnings, constraint_violation)
AnchorPost ==
    /\ steps < MaxSteps
    /\ \E call \in Calls, outcome \in Outcomes :
          LET r == PostOperation(anchor, now, call[1], call[2], outcome[1], outcome[2]) IN
          /\ anchor' = IF r.raised THEN anchor ELSE r.anchor
          /\ last' = [call |-> "post_operation", operation |-> call[1], context |-> call[2],
                      advisory_warnings |-> outcome[1], constraint_violation |-> outcome[2],
                      ret |-> IF r.raised THEN r ELSE [raised |-> FALSE, result |-> r.result]]
          /\ safeRun' = IF IsSafeCall(call) THEN safeRun ELSE -1
    /\ steps' = steps + 1
    /\ UNCHANGED <<validator, guard, now, bridge>>

\* anchor.human_interacted()
AnchorHumanInteracted ==
    /\ steps < MaxSteps
    /\ anchor' = HumanInteracted(anchor, now)
    /\ last' = [call |-> "human_interacted"]
    /\ safeRun' = -1
    /\ steps' = steps + 1
    /\ UNCHANGED <<validator, guard, now, bridge>>

\* anchor.human_checkpoint()
AnchorHumanCheckpoint ==
    /\ steps < MaxSteps
    /\ anchor' = HumanCheckpoint(anchor, now)
    /\ last' = [call |-> "human_checkpoint"]
    /\ safeRun' = -1
    /\ steps' = steps + 1
    /\ UNCHANGED <<validator, guard, now, bridge>>

\* anchor.human_corrected()
AnchorHumanCorrected ==
    /\ steps < MaxSteps
    /\ anchor' = HumanCorrected(anchor, now)
    /\ last' = [call |-> "human_corrected"]
    /\ safeRun' = -1
    /\ steps' = steps + 1
    /\ UNCHANGED <<validator, guard, now, bridge>>

\* time passes between two calls
Tick ==
    /\ steps < MaxSteps
    /\ \E d \in TickDeltas :
          /\ now + d <= MaxClock
          /\ now' = now + d
    /\ last' = [call |-> "tick"]
    /\ steps' = steps + 1
    /\ UNCHANGED <<anchor, validator, guard, safeRun, bridge>>

NextAnchor ==
    \/ AnchorPre
    \/ AnchorPost
    \/ AnchorHumanInteracted
    \/ AnchorHumanCheckpoint
    \/ AnchorHumanCorrected
    \/ Tick

SpecAnchor == InitAnchor /\ [][NextAnchor]_vars

-----------------------------------------------------------------------------
(* Properties of the anchor, checked under SpecAnchor *)

LastRisk == AssessRisk(last.operation, last.context)

LastIsOp(name) == last.call = name /\ ~last.ret.raised

\* C1: trust_score stays within [0, 1] in every reachable state, whatever the
\* sequence of post_operation and human_* calls and the initial trust in [0, 1].
C1_TrustInRange == 0 <= anchor.trust_score /\ anchor.trust_score <= One

\* a clean post_operation has raised a trust that ends at the upper clamp
C1_Witness ==
    /\ LastIsOp("post_operation")
    /\ last.ret.result.trust_delta > 0
    /\ anchor.trust_score = One

\* C2: 0 <= risk_budget <= budget_size in every reachable state, drift-triggered
\* reduce_budget deductions included.
C2_BudgetInRange == 0 <= anchor.risk_budget /\ anchor.risk_budget <= anchor.budget_size

\* a post_operation whose drift scan deducted the reduce_budget penalty down to the floor
C2_Witness ==
    /\ LastIsOp("post_operation")
    /\ last.ret.result.drift_detected = "external_drift"
    /\ anchor.risk_budget = 0

\* C4: pre_operation denies every CRITICAL operation with the critical reason in
\* every reachable anchor state (full trust, full budget, after a checkpoint), and
\* _can_proceed_for_risk("CRITICAL") is False.
C4_CriticalNeverProceeds ==
    /\ \A call \in Calls :
          AssessRisk(call[1], call[2]) = "CRITICAL" =>
             LET r == PreOperation(anchor, now, call[1], call[2]) IN
             ~r.raised /\ ~r.can_proceed /\ r.reason.tag = "critical"
    /\ ~CanProceedForRisk(anchor, "CRITICAL")
    /\ (LastIsOp("pre_operation") /\ LastRisk = "CRITICAL" =>
           ~last.ret.can_proceed /\ last.ret.reason.tag = "critical")

\* a CRITICAL pre_operation denied at trust 1.0 with a full budget after a human_checkpoint
C4_Witness ==
    /\ LastIsOp("pre_operation")
    /\ LastRisk = "CRITICAL"
    /\ ~last.ret.can_proceed
    /\ anchor.trust_score = One
    /\ anchor.risk_budget = anchor.budget_size
    /\ anchor.last_checkpoint > 0

C6_CheckpointResets ==
    [][last'.call = "human_checkpoint"
       => /\ anchor'.risk_budget = anchor.budget_size
          /\ anchor'.trust_score = Min(One, anchor.trust_score + trust_boost_checkpoint)
          /\ anchor'.total_ops_since_checkpoint = 0
          /\ anchor'.warnings_since_checkpoint = 0
          /\ anchor'.last_checkpoint = now
          /\ anchor'.last_human_interaction = now]_vars

\* a checkpoint taken after a HIGH operation had been recorded and time had passed
C6_Witness ==
    /\ last.call = "human_checkpoint"
    /\ \E i \in 1..Len(anchor.history) : anchor.history[i].risk = "HIGH"
    /\ anchor.risk_budget = anchor.budget_size
    /\ anchor.total_ops_since_checkpoint = 0
    /\ anchor.last_checkpoint = now
    /\ now > 0

-----------------------------------------------------------------------------
(* The validator used on its own *)

\* constraints as the tests build them: (id, name, check, severity, error_message)
MandatoryBlock ==
    [id |-> "mandatory_block", name |-> "Mandatory Block", check |-> "never",
     severity |-> "MANDATORY", error_message |-> ""]

RequiredBlock ==
    [id |-> "required_block", name |-> "Required Block", check |-> "never",
     severity |-> "REQUIRED", error_message |-> ""]

AdvisoryWarn ==
    [id |-> "advisory_warn", name |-> "Advisory Warning", check |-> "never",
     severity |-> "ADVISORY", error_message |-> "advisory: look again"]

AuthCheck ==
    [id |-> "auth_check", name |-> "Auth Check", check |-> "authenticated",
     severity |-> "MANDATORY", error_message |-> ""]

BrokenCheck ==
    [id |-> "broken_check", name |-> "Broken Check", check |-> "raises",
     severity |-> "REQUIRED", error_message |-> ""]

BrokenMandatory ==
    [id |-> "broken_mandatory", name |-> "Broken Mandatory", check |-> "raises",
     severity |-> "MANDATORY", error_message |-> "never shown"]

ConstraintPool ==
    {MandatoryBlock, RequiredBlock, AdvisoryWarn, AuthCheck, BrokenCheck, BrokenMandatory}

\* the operations argument of register: None, an empty list, a list of names
Scopes == {None, <<>>, <<"send">>}

ValidatorCalls ==
    {<<"send", [authenticated |-> TRUE]>>,
     <<"x", [risk_level |-> "LOW"]>>}

InitValidator ==
    /\ anchor = NewAnchor(700, 1000, 100, 0)
    /\ now = 0
    /\ safeRun = -1
    /\ validator = NewValidator
    /\ guard = NewGuard("shadow", TRUE, 1000)
    /\ last = [call |-> "init"]
    /\ steps = 0
    /\ bridge = NewBridge(TRUE)

\* validator.register(constraint, operations)
ValRegister ==
    /\ steps < MaxSteps
    /\ \E c \in ConstraintPool, operations \in Scopes :
          /\ validator' = Register(validator, c, operations)
          /\ last' = [call |-> "register", constraint |-> c.id, scoped |-> operations # None]
    /\ steps' = steps + 1
    /\ UNCHANGED <<anchor, guard, now, safeRun, bridge>>

\* validator.validate(operation, context, override_justification)
ValValidate ==
    /\ steps < MaxSteps
    /\ \E call \in ValidatorCalls, j \in Justifications :
          LET result == Validate(validator, now, call[1], call[2], j) IN
          /\ validator' = [validator EXCEPT !.history = Append(@, result)]
          /\ last' = [call |-> "validate", operation |-> call[1], context |-> call[2],
                      override_justification |-> j,
                      ret |-> [raised |-> FALSE, can_execute |-> can_execute(result)]]
    /\ steps' = steps + 1
    /\ UNCHANGED <<anchor, guard, now, safeRun, bridge>>

NextValidator ==
    \/ ValRegister
    \/ ValValidate

SpecValidator == InitValidator /\ [][NextValidator]_vars

\* C8: for every ValidationResult, can_execute = (no mandatory failure) and (no
\* required failure or a justification is present); a justification never admits
\* a mandatory failure and advisory failures never block.
C8_CanExecuteFormula ==
    \A n \in 1..Len(validator.history) :
        LET v == validator.history[n]
            Failed(sev) == \E i \in 1..Len(v.results) :
                              ~v.results[i].satisfied /\ v.results[i].severity = sev
            justified == v.override_justification \notin {None, ""}
        IN  /\ can_execute(v) = (~Failed("MANDATORY") /\ (~Failed("REQUIRED") \/ justified))
            /\ (Failed("MANDATORY") => ~can_execute(v))
            /\ (~Failed("MANDATORY") /\ ~Failed("REQUIRED") => can_execute(v))

\* a validate with a justification that still cannot execute: a mandatory failure
\* next to a required and an advisory one
C8_Witness ==
    /\ LastIsOp("validate")
    /\ last.override_justification = "audit #42"
    /\ ~last.ret.can_execute
    /\ LET v == validator.history[Len(validator.history)] IN
       /\ mandatory_failures(v) # <<>>
       /\ Len(v.results) >= 2

-----------------------------------------------------------------------------
(* The guard: pre_check / post_record / set_mode / human events *)

MaxGuardSteps == 2    \* calls per behaviour of the guard

GuardCalls ==
    {SafePlain,
     <<"x", [risk_level |-> "MEDIUM", path |-> "/tmp/a", api_key |-> "s3cr3t"]>>,
     <<"send", [risk_level |-> "HIGH"]>>,
     <<"Delete_Row", [risk_level |-> "CRITICAL"]>>,
     <<"send", [risk_level |-> "high"]>>}

GuardOutcomes == {<<0, FALSE>>, <<MaxWarnings, TRUE>>}

GuardJustifications == {None, "audit #42"}

\* validators handed to EquilibriumGuard(validator=...): empty, or with a required
\* constraint on every operation, a mandatory one on "x" and an advisory one on "send"
GuardValidators ==
    {NewValidator,
     Register(Register(Register(NewValidator, RequiredBlock, None),
                       MandatoryBlock, <<"x">>),
              AdvisoryWarn, <<"send">>)}

\* EquilibriumGuard(mode, log_decisions, max_decision_history), two of them with
\* subscribers registered by on_decision during set-up
GuardConfigs ==
    {OnDecision(OnDecision(NewGuard("shadow", TRUE, 1), NewCallback("raiser")),
                NewCallback("recorder")),
     NewGuard("soft", TRUE, 0),
     NewGuard("enforce", FALSE, 1000),
     OnDecision(NewGuard("disabled", TRUE, 2), NewCallback("recorder"))}

\* the callables handed to on_decision
CallbackKinds == {"recorder", "raiser"}

\* EquilibriumGuard(anchor=...): fresh anchors and one after a warm session
GuardSessions ==
    {FreshSession(700, 1000, 100),
     FreshSession(300, 1000, 100),
     FreshSession(700, 1000, 2),
     WarmSession(700, 1000, 100)}

Init ==
    /\ \E s \in GuardSessions :
          /\ anchor = s.anchor
          /\ now = s.now
          /\ safeRun = s.anchor.budget_size
    /\ validator \in GuardValidators
    /\ guard \in GuardConfigs
    /\ last = [call |-> "init"]
    /\ steps = 0
    /\ bridge = NewBridge(TRUE)

\* what a caller of pre_check observes
PreCheckObserved(call, j, r) ==
    IF r.raised
    THEN [call |-> "pre_check", operation |-> call[1], context |-> call[2],
          override_justification |-> j, mode |-> guard.mode,
          ret |-> [raised |-> TRUE, error |-> r.error]]
    ELSE IF ~r.recorded
    THEN [call |-> "pre_check", operation |-> call[1], context |-> call[2],
          override_justification |-> j, mode |-> guard.mode,
          ret |-> [raised |-> FALSE, allowed |-> r.allowed, messages |-> r.messages],
          recorded |-> FALSE]
    ELSE [call |-> "pre_check", operation |-> call[1], context |-> call[2],
          override_justification |-> j, mode |-> guard.mode,
          ret |-> [raised |-> FALSE, allowed |-> r.allowed, messages |-> r.messages],
          recorded |-> TRUE,
          decision |-> r.decision]

PreCheckStep(call, j, r) ==
    /\ guard' = r.guard
    /\ validator' = r.validator
    /\ last' = PreCheckObserved(call, j, r)
    /\ safeRun' = IF IsSafeCall(call) THEN safeRun ELSE -1

\* a pre_check that reserves the cost of the operation it admits
GuardPreCheckReserves ==
    /\ steps < MaxGuardSteps
    /\ \E call \in GuardCalls, j \in GuardJustifications :
          /\ PreCheckStep(call, j, PreCheck(guard, anchor, validator, now, call[1], call[2], j))
          /\ anchor' = IF GetRiskLevel(call[1], call[2]) \in RiskLevels
                       THEN [anchor EXCEPT !.risk_budget =
                                Max(0, @ - RISK_COSTS[GetRiskLevel(call[1], call[2])])]
                       ELSE anchor
    /\ steps' = steps + 1
    /\ UNCHANGED <<now, bridge>>

\* guard.pre_check(operation, context, override_justification)
GuardPreCheck ==
    /\ steps < MaxGuardSteps
    /\ \E call \in GuardCalls, j \in GuardJustifications :
          PreCheckStep(call, j, PreCheck(guard, anchor, validator, now, call[1], call[2], j))
    /\ steps' = steps + 1
    /\ UNCHANGED <<anchor, now, bridge>>

\* post_record without the early return of Disabled mode
PostRecordAlways(g, a, post) ==
    IF post.raised
    THEN [raised |-> TRUE, error |-> post.error, anchor |-> a]
    ELSE [raised |-> FALSE, anchor |-> post.anchor, result |-> post.result]

\* EquilibriumGuard.post_record: the anchor it leaves and the dict it returns
PostRecord(g, a, post) ==
    IF g.mode = "disabled"
    THEN [raised |-> FALSE, anchor |-> a,
          result |-> [valid |-> TRUE, budget_remaining |-> One, trust_delta |-> 0]]
    ELSE IF post.raised
    THEN [raised |-> TRUE, error |-> post.error, anchor |-> a]
    ELSE [raised |-> FALSE, anchor |-> post.anchor, result |-> post.result]

PostRecordStep(call, outcome, r) ==
    /\ anchor' = r.anchor
    /\ last' = [call |-> "post_record", operation |-> call[1], context |-> call[2],
                advisory_warnings |-> outcome[1], constraint_violation |-> outcome[2],
                mode |-> guard.mode,
                ret |-> [f \in DOMAIN r \ {"anchor"} |-> r[f]]]
    /\ safeRun' = IF IsSafeCall(call) THEN safeRun ELSE -1

\* guard.post_record(operation, context, advisory_warnings, constraint_violation)
GuardPostRecord ==
    /\ steps < MaxGuardSteps
    /\ \E call \in GuardCalls, outcome \in GuardOutcomes :
          PostRecordStep(call, outcome,
                         PostRecord(guard, anchor,
                                    PostOperation(anchor, now, call[1], call[2],
                                                  outcome[1], outcome[2])))
    /\ steps' = steps + 1
    /\ UNCHANGED <<validator, guard, now, bridge>>

\* guard.set_mode(mode)
GuardSetMode ==
    /\ steps < MaxGuardSteps
    /\ \E mode \in Modes :
          /\ guard' = [guard EXCEPT !.mode = mode]
          /\ last' = [call |-> "set_mode", mode |-> mode]
    /\ safeRun' = -1
    /\ steps' = steps + 1
    /\ UNCHANGED <<anchor, validator, now, bridge>>

\* guard.on_human_message()
GuardHumanMessage ==
    /\ steps < MaxGuardSteps
    /\ anchor' = HumanInteracted(anchor, now)
    /\ last' = [call |-> "on_human_message"]
    /\ safeRun' = -1
    /\ steps' = steps + 1
    /\ UNCHANGED <<validator, guard, now, bridge>>

\* guard.on_human_approval()
GuardHumanApproval ==
    /\ steps < MaxGuardSteps
    /\ anchor' = HumanCheckpoint(anchor, now)
    /\ last' = [call |-> "on_human_approval"]
    /\ safeRun' = -1
    /\ steps' = steps + 1
    /\ UNCHANGED <<validator, guard, now, bridge>>

\* guard.on_human_correction()
GuardHumanCorrection ==
    /\ steps < MaxGuardSteps
    /\ anchor' = HumanCorrected(anchor, now)
    /\ last' = [call |-> "on_human_correction"]
    /\ safeRun' = -1
    /\ steps' = steps + 1
    /\ UNCHANGED <<validator, guard, now, bridge>>

\* guard.on_decision(callback)
GuardOnDecision ==
    /\ steps < MaxGuardSteps
    /\ \E kind \in CallbackKinds :
          /\ guard' = OnDecision(guard, NewCallback(kind))
          /\ last' = [call |-> "on_decision", kind |-> kind]
    /\ safeRun' = -1
    /\ steps' = steps + 1
    /\ UNCHANGED <<anchor, validator, now, bridge>>

\* more than max_minutes_without_human passes between two calls
GuardIdle ==
    /\ steps < MaxGuardSteps
    /\ now + 3700 <= MaxClock
    /\ now' = now + 3700
    /\ last' = [call |-> "tick"]
    /\ steps' = steps + 1
    /\ UNCHANGED <<anchor, validator, guard, safeRun, bridge>>

Next ==
    \/ GuardPreCheck
    \/ GuardPostRecord
    \/ GuardSetMode
    \/ GuardHumanMessage
    \/ GuardHumanApproval
    \/ GuardHumanCorrection
    \/ GuardOnDecision
    \/ GuardIdle

Spec == Init /\ [][Next]_vars

-----------------------------------------------------------------------------
(* Properties of the guard *)

CriticalIssue == <<"[ANCHOR]", "critical", None>>

Contains(messages, m) == \E i \in 1..Len(messages) : messages[i] = m

IsCriticalCall(call) == GetRiskLevel(call[1], call[2]) = "CRITICAL"

\* C3 as stated: in every guard state (any mode, trust, budget, history) a pre_check
\* whose context has risk_level CRITICAL returns deny with the critical reason.
C3_CriticalAlwaysDenied ==
    \A call \in GuardCalls, j \in GuardJustifications :
        IsCriticalCall(call) =>
            LET r == PreCheck(guard, anchor, validator, now, call[1], call[2], j) IN
            ~r.raised /\ ~r.allowed /\ Contains(r.messages, CriticalIssue)

\* C3 amended: a CRITICAL pre_check is denied with the critical reason in Soft and
\* Enforce; in Shadow it is allowed while its Decision records would_block with the
\* critical reason; in Disabled it returns (True, []) and records nothing.
C3_CriticalDeniedWhenEnforcing ==
    /\ \A call \in GuardCalls, j \in GuardJustifications :
          IsCriticalCall(call) =>
             LET r == PreCheck(guard, anchor, validator, now, call[1], call[2], j) IN
             /\ ~r.raised
             /\ guard.mode \in {"soft", "enforce"} =>
                   ~r.allowed /\ Contains(r.messages, CriticalIssue)
             /\ guard.mode = "shadow" =>
                   /\ r.allowed
                   /\ r.decision.would_block
                   /\ ~r.decision.actually_blocked
                   /\ Contains(r.decision.reasons, CriticalIssue)
             /\ guard.mode = "disabled" =>
                   r.allowed /\ r.messages = <<>> /\ ~r.recorded
    /\ (LastIsOp("pre_check") /\ IsCriticalCall(<<last.operation, last.context>>)
           /\ last.mode \in {"soft", "enforce"}
        => ~last.ret.allowed /\ Contains(last.ret.messages, CriticalIssue))

\* a CRITICAL pre_check with a justification denied in soft mode, with trust and
\* budget that meet the CRITICAL threshold and cost
C3_Witness ==
    /\ LastIsOp("pre_check")
    /\ IsCriticalCall(<<last.operation, last.context>>)
    /\ last.mode = "soft"
    /\ last.override_justification = "audit #42"
    /\ ~last.ret.allowed
    /\ Contains(last.ret.messages, CriticalIssue)
    /\ anchor.trust_score >= RISK_TRUST_THRESHOLDS["CRITICAL"]
    /\ anchor.risk_budget >= RISK_COSTS["CRITICAL"]

\* C7 as stated: the anchor history holds at most history_size records, the guard's
\* decision_history at most max_decision_history decisions, the two metrics sample
\* lists at most 1000 samples each and equally many.
C7_StoresBounded ==
    /\ Len(anchor.history) <= anchor.history_size
    /\ Len(guard.decision_history) <= guard.max_decision_history
    /\ Len(guard.metrics.trust_score_samples) <= MaxSamples
    /\ Len(guard.metrics.budget_samples) <= MaxSamples
    /\ Len(guard.metrics.trust_score_samples) = Len(guard.metrics.budget_samples)

\* C9: a pre_check in Shadow, Soft or Enforce that returns has would_block true iff
\* the anchor denied or the validator gave blocking errors; actually_blocked is
\* false in Shadow, would_block and risk in {HIGH, CRITICAL} in Soft, would_block in
\* Enforce; it returns (not actually_blocked, issues if blocked else warnings); the
\* recorded Decision carries these two values.
C9_DecisionFollowsMode ==
    [][last'.call = "pre_check" /\ ~last'.ret.raised /\ guard.mode # "disabled"
       => LET operation == last'.operation
              context == last'.context
              pre == PreOperation(anchor, now, operation, context)
              val == Validate(validator, now, operation, context,
                              last'.override_justification)
              errors == blocking_errors(val)
              would == ~pre.can_proceed \/ errors # <<>>
              risk == GetRiskLevel(operation, context)
              actual == CASE guard.mode = "shadow" -> FALSE
                          [] guard.mode = "soft" -> would /\ risk \in {"HIGH", "CRITICAL"}
                          [] guard.mode = "enforce" -> would
              issues == (IF pre.can_proceed THEN <<>>
                         ELSE << <<"[ANCHOR]", pre.reason.tag, pre.reason.detail>> >>)
                        \o errors
              warns == pre.warnings \o warnings(val)
          IN  /\ last'.recorded
              /\ last'.decision.would_block = would
              /\ last'.decision.actually_blocked = actual
              /\ last'.ret.allowed = ~actual
              /\ last'.ret.messages = IF actual THEN issues ELSE warns
              /\ guard'.metrics.total_checks = guard.metrics.total_checks + 1
              /\ guard'.metrics.would_block_count
                    = guard.metrics.would_block_count + (IF would THEN 1 ELSE 0)
              /\ guard'.metrics.actually_blocked_count
                    = guard.metrics.actually_blocked_count + (IF actual THEN 1 ELSE 0)
              /\ (guard.log_decisions /\ guard.max_decision_history > 0
                  => guard'.decision_history[Len(guard'.decision_history)] = last'.decision)
     ]_vars

\* a shadow pre_check that would block is allowed and its Decision says would_block
C9_Witness ==
    /\ LastIsOp("pre_check")
    /\ last.mode = "shadow"
    /\ last.ret.allowed
    /\ last.decision.would_block
    /\ ~last.decision.actually_blocked
    /\ guard.decision_history = <<last.decision>>
    /\ guard.metrics.shadow_passes = 1

\* the order Disabled <= Shadow <= Soft <= Enforce
ModeRank == [m \in Modes |-> CASE m = "disabled" -> 0
                               [] m = "shadow" -> 1
                               [] m = "soft" -> 2
                               [] m = "enforce" -> 3]

\* pre_check on the present guard, anchor and validator, the guard set to `mode`
BlocksIn(mode, call, j) ==
    LET r == PreCheck([guard EXCEPT !.mode = mode], anchor, validator, now,
                      call[1], call[2], j)
    IN  ~r.raised /\ ~r.allowed

\* C10: for the same inputs and the same guard, anchor and validator state, a
\* pre_check that blocks in one mode blocks in every stricter mode along
\* Disabled <= Shadow <= Soft <= Enforce.
C10_ModeMonotone ==
    \A call \in GuardCalls, j \in GuardJustifications :
        LET blocking == {m \in Modes : BlocksIn(m, call, j)} IN
        \A m1 \in blocking, m2 \in Modes :
            ModeRank[m1] <= ModeRank[m2] => m2 \in blocking

\* a call blocked in soft mode: blocked in enforce as well, not in shadow; and a
\* MEDIUM call on the same state that only enforce blocks
C10_Witness ==
    /\ LastIsOp("pre_check")
    /\ last.mode = "soft"
    /\ ~last.ret.allowed
    /\ BlocksIn("enforce", <<last.operation, last.context>>, last.override_justification)
    /\ ~BlocksIn("shadow", <<last.operation, last.context>>, last.override_justification)
    /\ \E call \in GuardCalls :
          /\ GetRiskLevel(call[1], call[2]) = "MEDIUM"
          /\ BlocksIn("enforce", call, None)
          /\ ~BlocksIn("soft", call, None)

\* what post_record returns in Disabled mode
NeutralPostRecord == [valid |-> TRUE, budget_remaining |-> One, trust_delta |-> 0]

\* C11: in Disabled mode pre_check returns (True, []) and post_record returns the
\* neutral values, and neither changes the anchor, the validator, the metrics, the
\* decision history or what any decision subscriber has seen.
C11_DisabledIsNoOp ==
    [][last'.call \in {"pre_check", "post_record"} /\ guard.mode = "disabled"
       => /\ ~last'.ret.raised
          /\ last'.call = "pre_check" =>
                last'.ret.allowed /\ last'.ret.messages = <<>> /\ ~last'.recorded
          /\ last'.call = "post_record" => last'.ret.result = NeutralPostRecord
          /\ anchor' = anchor
          /\ validator' = validator
          /\ guard' = guard
     ]_vars

\* a post_record of a violating HIGH operation in Disabled mode, on a guard that has
\* a subscriber and an anchor whose budget is still full
C11_Witness ==
    /\ LastIsOp("post_record")
    /\ last.mode = "disabled"
    /\ GetRiskLevel(last.operation, last.context) = "HIGH"
    /\ last.constraint_violation
    /\ last.ret.result = NeutralPostRecord
    /\ anchor.risk_budget = anchor.budget_size
    /\ anchor.total_ops_since_checkpoint = 0
    /\ guard.decision_callbacks # <<>>
    /\ \A i \in 1..Len(guard.decision_callbacks) : guard.decision_callbacks[i].seen = <<>>

\* the HIGH operation of the budget-depletion scenario
HighSend == <<"send", [risk_level |-> "HIGH"]>>

\* C12: when HIGH post-operations have used up the budget, so that the pre-check of
\* a HIGH operation is denied for budget, a human_checkpoint() makes the pre-check
\* of the same operation allowed again (budget back to budget_size).
C12_CheckpointRecovers ==
    [][/\ last'.call = "human_checkpoint"
       /\ anchor.budget_size >= RISK_COSTS["HIGH"]
       /\ anchor.history # <<>>
       /\ anchor.history[Len(anchor.history)].risk = "HIGH"
       /\ LET before == PreOperation(anchor, now, HighSend[1], HighSend[2]) IN
          ~before.raised /\ ~before.can_proceed /\ before.reason.tag = "budget"
       => /\ anchor'.risk_budget = anchor'.budget_size
          /\ PreOperation(anchor', now', HighSend[1], HighSend[2]).can_proceed
     ]_vars

-----------------------------------------------------------------------------
(* Properties of the validator *)

\* the ids some register call has scoped to `operation`
ScopedTo(v, operation) ==
    IF operation \in DOMAIN v.operation_constraints
    THEN {v.operation_constraints[operation][i] :
             i \in 1..Len(v.operation_constraints[operation])}
    ELSE {}

\* a constraint applies if no register call ever scoped it, or one scoped it to `operation`
Applicable(v, operation) ==
    {cid \in DOMAIN v.constraints :
        \/ \A op \in DOMAIN v.operation_constraints : cid \notin ScopedTo(v, op)
        \/ cid \in ScopedTo(v, operation)}

\* C13: validate evaluates every applicable constraint once and no other one; with
\* none applicable the results are empty and can_execute is true; each validate
\* appends one ValidationResult to the history and nothing ever removes one.
C13_ValidateEvaluatesApplicable ==
    [][/\ last'.call = "validate" =>
             LET result == validator'.history[Len(validator'.history)]
                 applicable == Applicable(validator, last'.operation)
             IN  /\ validator'.history = Append(validator.history, result)
                 /\ result.operation = last'.operation
                 /\ {result.results[i].constraint_id : i \in 1..Len(result.results)}
                       = applicable
                 /\ Len(result.results) = Cardinality(applicable)
                 /\ \A i \in 1..Len(result.results) :
                       result.results[i]
                          = Evaluate(validator.constraints[result.results[i].constraint_id],
                                     last'.context, now)
                 /\ (applicable = {} => result.results = <<>> /\ last'.ret.can_execute)
                 /\ validator'.constraints = validator.constraints
                 /\ validator'.operation_constraints = validator.operation_constraints
       /\ last'.call # "validate" => validator'.history = validator.history
     ]_vars

\* a validate of "x" with one global constraint evaluated and one constraint, scoped
\* to "send", left out
C13_Witness ==
    /\ LastIsOp("validate")
    /\ last.operation = "x"
    /\ Cardinality(DOMAIN validator.constraints) = 2
    /\ Len(validator.history[Len(validator.history)].results) = 1
    /\ "send" \in DOMAIN validator.operation_constraints
    /\ ScopedTo(validator, "send") # {}
    /\ Applicable(validator, "x") # DOMAIN validator.constraints

\* C14: registering the same constraint with the same operations argument twice or
\* three times gives, for every operation, context and justification, the same
\* validate result as registering it once.
C14_RegisterIdempotent ==
    \A c \in ConstraintPool, operations \in Scopes :
        LET once == Register(validator, c, operations)
            twice == Register(once, c, operations)
            thrice == Register(twice, c, operations)
        IN  \A call \in ValidatorCalls, j \in Justifications :
                LET result == Validate(once, now, call[1], call[2], j) IN
                /\ Validate(twice, now, call[1], call[2], j) = result
                /\ Validate(thrice, now, call[1], call[2], j) = result
                /\ twice.constraints = once.constraints

\* the same constraint has been registered for "send" twice and is evaluated once
C14_Witness ==
    /\ last.call = "register"
    /\ last.scoped
    /\ "send" \in DOMAIN validator.operation_constraints
    /\ validator.operation_constraints["send"] = <<last.constraint, last.constraint>>
    /\ Len(Validate(validator, now, "send", [authenticated |-> TRUE], None).results) = 1

\* C15: after register(c1, ops1) and then register(c2, ops2) with the id of c1, every
\* validate gives what it gives after register(c2, ops2) alone: the predicate, the
\* severity and the scope are those of the second registration.
C15_LastWriteWins ==
    \A c1 \in ConstraintPool, c2 \in ConstraintPool, ops1 \in Scopes, ops2 \in Scopes :
        c1.id \notin DOMAIN validator.constraints =>
            LET replacement == [c2 EXCEPT !.id = c1.id]
                both == Register(Register(validator, c1, ops1), replacement, ops2)
                only == Register(validator, replacement, ops2)
            IN  \A call \in ValidatorCalls, j \in Justifications :
                    Validate(both, now, call[1], call[2], j)
                       = Validate(only, now, call[1], call[2], j)

\* f"Constraint evaluation error: {str(e)}" for the exception the raising checks raise
EvaluationError == "Constraint evaluation error: boom"

\* C16: a check that raises gives a result with satisfied = false, the exception
\* message and the severity of its constraint; validate still returns and holds a
\* result for every applicable constraint; a raising MANDATORY constraint makes
\* can_execute false whatever the justification and makes pre_check block in
\* Enforce mode, with nothing raised.
C16_RaisingCheckIsFailure ==
    [][last'.call = "validate" =>
          LET result == validator'.history[Len(validator'.history)]
              raising == {i \in 1..Len(result.results) :
                             validator.constraints[result.results[i].constraint_id].check
                                = "raises"}
              check == PreCheck([guard EXCEPT !.mode = "enforce"], anchor, validator, now,
                                last'.operation, last'.context,
                                last'.override_justification)
          IN  /\ ~last'.ret.raised
              /\ Len(result.results) = Cardinality(Applicable(validator, last'.operation))
              /\ \A i \in raising :
                    LET r == result.results[i] IN
                    /\ ~r.satisfied
                    /\ r.message = EvaluationError
                    /\ r.severity = validator.constraints[r.constraint_id].severity
                    /\ r.severity = "MANDATORY" =>
                          /\ ~last'.ret.can_execute
                          /\ Contains(blocking_errors(result), <<"[MANDATORY]", EvaluationError>>)
                          /\ ~check.allowed
                          /\ Contains(check.messages, <<"[MANDATORY]", EvaluationError>>)
                    /\ r.severity = "REQUIRED" /\ ~HasJustification(result) =>
                          ~last'.ret.can_execute
              /\ ~check.raised
     ]_vars

\* a validate with a justification where a MANDATORY check raised and another
\* constraint was evaluated as well
C16_Witness ==
    /\ LastIsOp("validate")
    /\ last.override_justification = "audit #42"
    /\ ~last.ret.can_execute
    /\ LET result == validator.history[Len(validator.history)] IN
       /\ Len(result.results) = 2
       /\ \E i \in 1..2 : /\ result.results[i].constraint_id = "broken_mandatory"
                          /\ result.results[i].message = EvaluationError
       /\ \E i \in 1..2 : result.results[i].satisfied

\* the positions of the unsatisfied results of severity `severity`
FailedAt(v, severity) ==
    {i \in 1..Len(v.results) : ~v.results[i].satisfied /\ v.results[i].severity = severity}

\* C17: warnings holds the advisory failures and, with a justification, the required
\* failures stamped with it; blocking_errors holds the mandatory failures and,
\* without a justification, the required failures; every unsatisfied result is in
\* exactly one of the two lists and no satisfied result is in either.
C17_WarningsAndBlockingErrors ==
    \A n \in 1..Len(validator.history) :
        LET v == validator.history[n]
            justified == v.override_justification \notin {None, ""}
            advisory == FailedAt(v, "ADVISORY")
            required == FailedAt(v, "REQUIRED")
            mandatory == FailedAt(v, "MANDATORY")
            warned == advisory \cup (IF justified THEN required ELSE {})
            blocked == mandatory \cup (IF justified THEN {} ELSE required)
        IN  /\ Len(warnings(v)) = Cardinality(warned)
            /\ Len(blocking_errors(v)) = Cardinality(blocked)
            /\ \A i \in advisory :
                  Contains(warnings(v), <<"[ADVISORY]", v.results[i].message>>)
            /\ \A i \in mandatory :
                  Contains(blocking_errors(v), <<"[MANDATORY]", v.results[i].message>>)
            /\ \A i \in required :
                  IF justified
                  THEN Contains(warnings(v), <<"[OVERRIDDEN]", v.results[i].message,
                                               v.override_justification>>)
                  ELSE Contains(blocking_errors(v), <<"[REQUIRED]", v.results[i].message>>)
            /\ warned \cap blocked = {}
            /\ warned \cup blocked = {i \in 1..Len(v.results) : ~v.results[i].satisfied}

\* a justified validate with an advisory and a required failure: two warnings, the
\* required one stamped with the justification, and no blocking error
C17_Witness ==
    /\ LastIsOp("validate")
    /\ last.override_justification = "audit #42"
    /\ LET v == validator.history[Len(validator.history)] IN
       /\ Len(warnings(v)) = 2
       /\ Contains(warnings(v), <<"[ADVISORY]", "advisory: look again">>)
       /\ \E i \in 1..2 : warnings(v)[i][1] = "[OVERRIDDEN]" /\ warnings(v)[i][3] = "audit #42"
       /\ blocking_errors(v) = <<>>

\* `new` is what is left of `old` with `x` appended after dropping some oldest entries
IsAppendedTo(new, old, x) ==
    /\ new # <<>>
    /\ new[Len(new)] = x
    /\ Len(new) <= Len(old) + 1
    /\ \A i \in 1..(Len(new) - 1) : new[i] = old[Len(old) + 1 - (Len(new) - i)]

\* C18: each pre_check that records a Decision puts it at the end of decision_history
\* and hands it to every subscriber once, after what they held before; each
\* post_record puts its OperationRecord at the end of the anchor history; no other
\* call reorders or rewrites either list.
C18_HistoriesFollowCallOrder ==
    [][/\ (last'.call = "pre_check" /\ ~last'.ret.raised /\ guard.mode # "disabled") =>
             /\ guard.log_decisions =>
                   IsAppendedTo(guard'.decision_history, guard.decision_history,
                                last'.decision)
             /\ Len(guard'.decision_callbacks) = Len(guard.decision_callbacks)
             /\ \A i \in 1..Len(guard.decision_callbacks) :
                   guard'.decision_callbacks[i].seen
                      = Append(guard.decision_callbacks[i].seen, last'.decision)
             /\ last'.decision.operation = last'.operation
       /\ ~(last'.call = "pre_check" /\ ~last'.ret.raised /\ guard.mode # "disabled") =>
             /\ guard'.decision_history = guard.decision_history
             /\ \A i \in 1..Len(guard.decision_callbacks) :
                   guard'.decision_callbacks[i] = guard.decision_callbacks[i]
       /\ (last'.call = "post_record" /\ ~last'.ret.raised /\ guard.mode # "disabled") =>
             /\ IsAppendedTo(anchor'.history, anchor.history,
                             anchor'.history[Len(anchor'.history)])
             /\ anchor'.history[Len(anchor'.history)].operation = last'.operation
             /\ anchor'.history[Len(anchor'.history)].timestamp = now
       /\ last'.call \notin {"post_record", "on_human_correction"} =>
             anchor'.history = anchor.history
       /\ last'.call = "on_human_correction" =>
             /\ IsAppendedTo(anchor'.history, anchor.history,
                             anchor'.history[Len(anchor'.history)])
             /\ anchor'.history[Len(anchor'.history)].operation = "_correction"
     ]_vars

\* two pre_checks on a guard that keeps one decision: the subscriber has seen both
\* decisions in call order and decision_history holds the second
C18_Witness ==
    /\ LastIsOp("pre_check")
    /\ last.recorded
    /\ guard.decision_history = <<last.decision>>
    /\ \E i \in 1..Len(guard.decision_callbacks) :
          LET seen == guard.decision_callbacks[i].seen IN
          /\ Len(seen) = 2
          /\ seen[2] = last.decision
          /\ seen[1].operation # seen[2].operation

\* C19: a subscriber that raises changes nothing else: every registered subscriber
\* is called with the Decision, the Decision is in the metrics and the history, and
\* pre_check returns what it returns on the same guard without subscribers.
C19_RaisingSubscriberIsSwallowed ==
    [][(last'.call = "pre_check" /\ guard.mode # "disabled"
           /\ \E i \in 1..Len(guard.decision_callbacks) :
                 guard.decision_callbacks[i].kind = "raiser")
       => \/ /\ last'.ret.raised
             /\ last'.ret.error = "KeyError"
             /\ guard' = guard
          \/ /\ ~last'.ret.raised
             /\ LET alone == PreCheck([guard EXCEPT !.decision_callbacks = <<>>],
                                      anchor, validator, now, last'.operation,
                                      last'.context, last'.override_justification)
                IN  /\ last'.ret.allowed = alone.allowed
                    /\ last'.ret.messages = alone.messages
                    /\ last'.decision = alone.decision
                    /\ guard'.metrics = alone.guard.metrics
                    /\ guard'.decision_history = alone.guard.decision_history
             /\ \A i \in 1..Len(guard.decision_callbacks) :
                   guard'.decision_callbacks[i].seen
                      = Append(guard.decision_callbacks[i].seen, last'.decision)
     ]_vars

\* a blocked pre_check on a guard whose first subscriber raises: the second
\* subscriber has the Decision and so has the history
C19_Witness ==
    /\ LastIsOp("pre_check")
    /\ last.recorded
    /\ ~last.ret.allowed
    /\ Len(guard.decision_callbacks) = 2
    /\ guard.decision_callbacks[1].kind = "raiser"
    /\ guard.decision_callbacks[2].kind = "recorder"
    /\ guard.decision_callbacks[1].seen = <<last.decision>>
    /\ guard.decision_callbacks[2].seen = <<last.decision>>
    /\ guard.decision_history = <<last.decision>>
    /\ guard.metrics.actually_blocked_count = 1

-----------------------------------------------------------------------------
(* The dashboard bridge on a guard: caller thread and worker threads *)

MaxBridgeSteps == 6

BridgeCalls == {SafePlain, <<"Delete_Row", [risk_level |-> "CRITICAL"]>>}

\* DashboardBridge(guard, async_mode=...) on a new EquilibriumGuard
InitBridge ==
    /\ \E s \in {FreshSession(700, 1000, 100), WarmSession(700, 1000, 100)} :
          /\ anchor = s.anchor
          /\ now = s.now
          /\ safeRun = s.anchor.budget_size
    /\ validator = NewValidator
    /\ guard \in {NewGuard("enforce", TRUE, 1000), NewGuard("shadow", TRUE, 1000)}
    /\ bridge \in {NewBridge(TRUE), NewBridge(FALSE)}
    /\ last = [call |-> "init"]
    /\ steps = 0

\* bridge.connect() on the caller's thread
BridgeConnect ==
    /\ steps < MaxBridgeSteps
    /\ \E ok \in BOOLEAN :
          /\ bridge' = Connect(bridge, guard, anchor, ok).bridge
          /\ guard' = Connect(bridge, guard, anchor, ok).guard
          /\ anchor' = Connect(bridge, guard, anchor, ok).anchor
    /\ last' = [call |-> "connect"]
    /\ steps' = steps + 1
    /\ UNCHANGED <<validator, now, safeRun>>

\* bridge.disconnect() on the caller's thread
BridgeDisconnect ==
    /\ steps < MaxBridgeSteps
    /\ bridge' = Disconnect(bridge)
    /\ last' = [call |-> "disconnect"]
    /\ steps' = steps + 1
    /\ UNCHANGED <<anchor, validator, guard, now, safeRun>>

BridgePreCheckStep(call, ok, r) ==
    /\ PreCheckStep(call, None, r)
    /\ bridge' = IF r.raised
                 THEN bridge
                 ELSE IF r.recorded
                 THEN BridgeNotifyFrom(bridge, guard.decision_callbacks, r.decision, ok, 1)
                 ELSE bridge

\* guard.pre_check(operation, context) on the caller's thread, the guard running
\* its decision callbacks before it returns
BridgePreCheck ==
    /\ steps < MaxBridgeSteps
    /\ \E call \in BridgeCalls, ok \in BOOLEAN :
          BridgePreCheckStep(call, ok,
                             PreCheck(guard, anchor, validator, now, call[1], call[2], None))
    /\ steps' = steps + 1
    /\ UNCHANGED <<anchor, now>>

\* guard.post_record(operation, context) on the caller's thread
BridgePostRecord ==
    /\ steps < MaxBridgeSteps
    /\ PostRecordStep(SafeExternal, <<0, FALSE>>,
                      PostRecord(guard, anchor,
                                 PostOperation(anchor, now, SafeExternal[1], SafeExternal[2],
                                               0, FALSE)))
    /\ steps' = steps + 1
    /\ UNCHANGED <<validator, guard, now, bridge>>

\* a worker thread returns from self._queue.get(), or starts to wait in it
BridgeWorkerGet ==
    /\ steps < MaxBridgeSteps
    /\ \E w \in 1..Len(bridge.workers) :
          /\ WorkerCanGet(bridge, w)
          /\ WorkerGet(bridge, w) # bridge
          /\ bridge' = WorkerGet(bridge, w)
          /\ last' = [call |-> "worker_get", worker |-> w]
    /\ steps' = steps + 1
    /\ UNCHANGED <<anchor, validator, guard, now, safeRun>>

\* a worker thread's post of the event it holds succeeds, or fails or times out
BridgeWorkerSend ==
    /\ steps < MaxBridgeSteps
    /\ \E w \in 1..Len(bridge.workers), ok \in BOOLEAN :
          /\ bridge.workers[w].pc = "send"
          /\ bridge' = WorkerSend(bridge, w, ok)
          /\ last' = [call |-> "worker_send", worker |-> w, ok |-> ok,
                      seq |-> bridge.workers[w].item.seq]
    /\ steps' = steps + 1
    /\ UNCHANGED <<anchor, validator, guard, now, safeRun>>

NextBridge ==
    \/ BridgeConnect
    \/ BridgeDisconnect
    \/ BridgePreCheck
    \/ BridgePostRecord
    \/ BridgeWorkerGet
    \/ BridgeWorkerSend

SpecBridge == InitBridge /\ [][NextBridge]_vars

-----------------------------------------------------------------------------
(* Properties of the dashboard bridge *)

\* the posts of decisions made by worker threads, oldest first
RECURSIVE WorkerPostsFrom(_, _)
WorkerPostsFrom(wire, i) ==
    IF i > Len(wire)
    THEN <<>>
    ELSE IF wire[i].thread = "worker"
    THEN <<wire[i].seq>> \o WorkerPostsFrom(wire, i + 1)
    ELSE WorkerPostsFrom(wire, i + 1)

LiveWorkers(b) == {w \in 1..Len(b.workers) : b.workers[w].pc # "done"}

\* the workers send the events first enqueued, in the order of their puts
SentInEnqueueOrder(b) ==
    LET posts == WorkerPostsFrom(b.wire, 1)
    IN  \A i \in 1..Len(posts) : posts[i] = i

\* C20: in async mode the decision callback only enqueues (pre_check makes no
\* post on its caller's thread and every registered callback puts one event at
\* the tail of the queue), there is one worker, the decisions it posts are the
\* events in the order of their puts, and after a failed or timed-out post the
\* event is gone and the worker is back at the queue
C20_AsyncBridgeFifo ==
    [][bridge.async_mode =>
         /\ (last'.call = "pre_check" /\ bridge' # bridge =>
               /\ bridge'.wire = bridge.wire
               /\ bridge'.workers = bridge.workers
               /\ bridge'.enqueued > bridge.enqueued
               /\ Len(bridge'.queues[bridge.queue]) =
                     Len(bridge.queues[bridge.queue]) + bridge'.enqueued - bridge.enqueued)
         /\ Cardinality(LiveWorkers(bridge')) <= 1
         /\ SentInEnqueueOrder(bridge')
         /\ (last'.call = "worker_send" =>
               /\ bridge'.workers[last'.worker].pc = "loop"
               /\ bridge'.queues = bridge.queues
               /\ bridge'.wire[Len(bridge'.wire)] =
                     [endpoint |-> "decision", seq |-> last'.seq,
                      thread |-> "worker", ok |-> last'.ok])]_vars

\* the drift scan of pre_operation was reached and returned a pattern
PreScanFound(a, t, operation, context) ==
    /\ ~PreOperation(a, t, operation, context).raised
    /\ PreOperation(a, t, operation, context).reason.tag \notin {"critical", "trust", "budget"}
    /\ DetectDrift(a.history) # NoDrift

\* C21: whenever the drift scan of a pre_operation or post_operation (here made
\* through the guard's pre_check and post_record) returns a pattern, every
\* callback registered through on_violation is invoked with it, so the connected
\* bridge hands an alert to its queue or to the sink
C21_DriftAlertsPublished ==
    [][(/\ anchor.violation_callbacks # <<>>
        /\ \/ /\ last'.call = "pre_check"
              /\ PreScanFound(anchor, now, last'.operation, last'.context)
           \/ /\ last'.call = "post_record"
              /\ ~last'.ret.raised
              /\ last'.ret.result.drift_detected # None)
       => /\ \A i \in 1..Len(anchor.violation_callbacks) :
                Len(anchor'.violation_callbacks[i].seen)
                   = Len(anchor.violation_callbacks[i].seen) + 1
          /\ bridge'.enqueued > bridge.enqueued]_vars

\* the contexts that agree with `context` on the whitelisted keys and have no
\* api_key, or one of two api_key values
ContextVariants(context) ==
    LET safe == DOMAIN context \cap SafeKeys
    IN  {[k \in safe |-> context[k]]}
        \cup {[k \in safe \cup {"api_key"} |->
                  IF k = "api_key" THEN secret ELSE context[k]] :
              secret \in {"s3cr3t", "hunter2"}}

\* the Decisions the guard holds or has handed to a subscriber
StoredDecisions ==
    {guard.decision_history[i] : i \in 1..Len(guard.decision_history)}
    \cup UNION {{guard.decision_callbacks[c].seen[i] :
                    i \in 1..Len(guard.decision_callbacks[c].seen)} :
                c \in 1..Len(guard.decision_callbacks)}

\* C22: context_summary holds exactly the whitelisted keys of the context with
\* their values, contexts that differ only in other keys give the same summary,
\* and no Decision in the history or seen by a subscriber carries another key.
C22_SummaryIsWhitelisted ==
    /\ \A d \in StoredDecisions : DOMAIN d.context_summary \subseteq SafeKeys
    /\ (last.call = "pre_check" /\ ~last.ret.raised /\ last.recorded) =>
          /\ DOMAIN last.decision.context_summary = DOMAIN last.context \cap SafeKeys
          /\ \A k \in DOMAIN last.decision.context_summary :
                last.decision.context_summary[k] = last.context[k]
          /\ \A other \in ContextVariants(last.context) :
                SummarizeContext(other) = last.decision.context_summary

\* a recorded pre_check whose context carried an api_key, seen by a subscriber
C22_Witness ==
    /\ last.call = "pre_check"
    /\ ~last.ret.raised
    /\ last.recorded
    /\ "api_key" \in DOMAIN last.context
    /\ last.decision.context_summary = [risk_level |-> "MEDIUM", path |-> "/tmp/a"]
    /\ \E c \in 1..Len(guard.decision_callbacks) :
          guard.decision_callbacks[c].seen # <<>>

\* str.upper() on the risk_level values the calls use
UpperLevel(level) == IF level \in {"high", "High"} THEN "HIGH" ELSE level

\* the context with its risk_level in upper case
UpperContext(context) ==
    IF "risk_level" \in DOMAIN context
    THEN [context EXCEPT !.risk_level = UpperLevel(@)]
    ELSE context

\* what the caller of pre_check gets and the metrics the call leaves
PreCheckOutcome(r) ==
    IF r.raised THEN <<"raised", r.error>>
    ELSE <<"returned", r.allowed, r.messages, r.guard.metrics>>

\* what the caller of post_record gets and the anchor state the call leaves
PostRecordOutcome(r) ==
    IF r.raised THEN <<"raised", r.error>>
    ELSE <<"returned", r.result, r.anchor.risk_budget, r.anchor.trust_score>>

\* C23: a risk_level in lower or mixed case behaves as the upper-case level: in
\* every reachable state pre_check and post_record return, and leave as metrics,
\* budget and trust, what they do for the same call with risk_level in upper case.
C23_RiskLevelAnyCase ==
    \A call \in GuardCalls :
       /\ PreCheckOutcome(PreCheck(guard, anchor, validator, now, call[1], call[2], None))
             = PreCheckOutcome(PreCheck(guard, anchor, validator, now, call[1],
                                        UpperContext(call[2]), None))
       /\ PostRecordOutcome(PostRecord(guard, anchor,
                                       PostOperation(anchor, now, call[1], call[2], 0, FALSE)))
             = PostRecordOutcome(PostRecord(guard, anchor,
                                            PostOperation(anchor, now, call[1],
                                                          UpperContext(call[2]), 0, FALSE)))

\* a context whose risk_level is none of the five levels in any letter case
UnknownRisk == [risk_level |-> "urgent"]

\* C24: pre_check and post_record never raise and return a structured result for
\* any context; a pre_check whose risk_level is not one of the five known levels
\* is denied.
C24_AdmissionNeverRaises ==
    /\ (last.call \in {"pre_check", "post_record"} => ~last.ret.raised)
    /\ ~PostRecord(guard, anchor, PostOperation(anchor, now, "send", UnknownRisk, 0, FALSE)).raised
    /\ ~PreCheck(guard, anchor, validator, now, "send", UnknownRisk, None).raised
    /\ ~PreCheck(guard, anchor, validator, now, "send", UnknownRisk, None).allowed

\* ten SAFE reads of one file, two seconds apart, on a new SmartAnchor()
SafeRead == <<"read_file", [risk_level |-> "SAFE", path |-> "/etc/hosts"]>>

SafeFlood == Replay(FreshSession(700, 1000, 100), SafeRead, 10)

\* C25: pre_operation admits a SAFE operation in every reachable state, so a
\* flood of SAFE pre/post pairs with any resource and timing is allowed on every
\* call without a checkpoint.
C25_SafeAlwaysAllowed ==
    /\ (LastIsOp("pre_operation") /\ LastRisk = "SAFE" => last.ret.can_proceed)
    /\ PreOperation(anchor, now, SafePlain[1], SafePlain[2]).can_proceed
    /\ PreOperation(SafeFlood.anchor, SafeFlood.now, SafeRead[1], SafeRead[2]).can_proceed

\* which checks of pre_operation fire for the last call, in the state it was made in
TrustFires == anchor.trust_score < RISK_TRUST_THRESHOLDS[LastRisk]

BudgetFires == anchor.risk_budget - RISK_COSTS[LastRisk] < 0

DriftFires == DetectDrift(anchor.history).severity = "checkpoint"

IdleFires ==
    /\ now - anchor.last_human_interaction > max_minutes_without_human * 60
    /\ LastRisk \in {"MEDIUM", "HIGH"}

\* C26: pre_operation reports the earliest of critical, trust below threshold,
\* budget below cost, checkpoint-severity drift and human idleness (MEDIUM and
\* HIGH only) that fires, and proceeds iff none fires; trust at the threshold and
\* budget equal to the cost pass, and a drift of another severity is a warning.
C26_ChecksInOrder ==
    LastIsOp("pre_operation") =>
       /\ last.ret.reason.tag =
             (IF LastRisk = "CRITICAL" THEN "critical"
              ELSE IF TrustFires THEN "trust"
              ELSE IF BudgetFires THEN "budget"
              ELSE IF DriftFires THEN "drift"
              ELSE IF IdleFires THEN "no_human"
              ELSE "proceed")
       /\ last.ret.can_proceed =
             ~(LastRisk = "CRITICAL" \/ TrustFires \/ BudgetFires \/ DriftFires \/ IdleFires)
       /\ (last.ret.reason.tag = "drift" =>
              last.ret.reason.detail = DetectDrift(anchor.history).name)
       /\ (LastRisk # "CRITICAL" /\ anchor.trust_score = RISK_TRUST_THRESHOLDS[LastRisk] =>
              last.ret.reason.tag # "trust")
       /\ (LastRisk # "CRITICAL" /\ anchor.trust_score >= RISK_TRUST_THRESHOLDS[LastRisk]
              /\ anchor.risk_budget = RISK_COSTS[LastRisk] =>
              last.ret.reason.tag # "budget")
       /\ (LastRisk \in {"SAFE", "LOW"} => last.ret.reason.tag # "no_human")
       /\ (DetectDrift(anchor.history).severity \in {"reduce_budget", "slow_down"} =>
              /\ last.ret.reason.tag # "drift"
              /\ last.ret.can_proceed =>
                    last.ret.warnings
                       = << <<"Drift warning", DetectDrift(anchor.history).name>> >>)
       /\ (last.ret.can_proceed =>
              last.ret.budget_after = anchor.risk_budget - RISK_COSTS[LastRisk])

\* a HIGH operation denied for trust while its budget is short too
C26_Witness ==
    /\ LastIsOp("pre_operation")
    /\ LastRisk = "HIGH"
    /\ TrustFires
    /\ BudgetFires
    /\ last.ret.reason.tag = "trust"

\* C27: a post_operation updates trust through exactly one branch: a violation
\* takes 0.2 and resets the clean streak without counting warnings; otherwise
\* warnings take 0.02 each, are added to warnings_since_checkpoint and reset the
\* streak; otherwise the operation is clean, adds 0.005, and 0.01 more when the
\* incremented streak is 10 or more; trust is clamped to [0, 1], so a clean
\* post_operation adds one to the streak and never lowers trust.
C27_TrustUpdateBranches ==
    [][(last'.call = "post_operation" /\ ~last'.ret.raised) =>
          LET n == last'.advisory_warnings
              violation == last'.constraint_violation
              delta == last'.ret.result.trust_delta
          IN  /\ anchor'.trust_score = Max(0, Min(One, anchor.trust_score + delta))
              /\ violation =>
                    /\ delta = 0 - trust_penalty_violation
                    /\ anchor'.consecutive_clean_ops = 0
                    /\ anchor'.warnings_since_checkpoint = anchor.warnings_since_checkpoint
              /\ (~violation /\ n > 0) =>
                    /\ delta = 0 - trust_penalty_warning * n
                    /\ anchor'.consecutive_clean_ops = 0
                    /\ anchor'.warnings_since_checkpoint
                          = anchor.warnings_since_checkpoint + n
              /\ (~violation /\ n <= 0) =>
                    /\ anchor'.consecutive_clean_ops = anchor.consecutive_clean_ops + 1
                    /\ delta = trust_boost_clean
                               + (IF anchor.consecutive_clean_ops + 1 >= StreakBonusFrom
                                  THEN trust_boost_streak ELSE 0)
                    /\ anchor'.warnings_since_checkpoint = anchor.warnings_since_checkpoint
                    /\ anchor'.trust_score >= anchor.trust_score
    ]_vars

\* a violation reported together with warnings, after a clean operation that
\* earned the streak bonus: the streak is reset and the warnings are not counted
C27_Witness ==
    /\ LastIsOp("post_operation")
    /\ last.constraint_violation
    /\ last.advisory_warnings > 0
    /\ anchor.consecutive_clean_ops = 0
    /\ anchor.warnings_since_checkpoint = 0
    /\ Len(anchor.history) >= 2
    /\ anchor.history[Len(anchor.history) - 1].warnings = 0
    /\ Len(anchor.history) > StreakBonusFrom

\* C28: human_checkpoint does not reset the clean streak: consecutive_clean_ops
\* is the same immediately after the call as immediately before it.
C28_CheckpointKeepsStreak ==
    [][last'.call = "human_checkpoint" =>
          anchor'.consecutive_clean_ops = anchor.consecutive_clean_ops]_vars

\* a checkpoint taken during a clean streak, with budget spent and operations counted
C28_Witness ==
    /\ last.call = "human_checkpoint"
    /\ anchor.consecutive_clean_ops >= StreakBonusFrom
    /\ anchor.total_ops_since_checkpoint = 0
    /\ anchor.risk_budget = anchor.budget_size
    /\ Len(anchor.history) > 0

\* C29: human_corrected sets last_human_interaction to now, raises trust by 0.05
\* (clamped at 1), appends one "_correction" record, and lowers trust by 0.05
\* (clamped at 0) exactly when more than 3 corrections are among the last 10
\* history records, the correction being recorded counted among them.
C29_CorrectionCountsItself ==
    LET a1 == HumanCorrected(anchor, now)
        window == LastN(a1.history, CorrectionWindow)
        counted == Cardinality({i \in 1..Len(window) : window[i].operation = "_correction"})
        raised == Min(One, anchor.trust_score + trust_boost_interaction)
    IN  /\ a1.last_human_interaction = now
        /\ a1.history = DequeAppend(anchor.history, CorrectionRecord(now), anchor.history_size)
        /\ a1.trust_score = (IF counted > CorrectionLimit
                             THEN Max(0, raised - CorrectionPenalty) ELSE raised)

-----------------------------------------------------------------------------
(* The drift scan over recorded sessions *)

MaxDriftSteps == 3    \* calls per behaviour after the recorded session

\* n post_operation calls of one kind, each with the same warnings, gap seconds apart
RECURSIVE ReplayWith(_, _, _, _, _)
ReplayWith(s, call, advisory_warnings, gap, n) ==
    IF n = 0 THEN s
    ELSE ReplayWith([anchor |-> PostOperation(s.anchor, s.now, call[1], call[2],
                                              advisory_warnings, FALSE).anchor,
                     now |-> s.now + gap],
                    call, advisory_warnings, gap, n - 1)

ListUrlRead == <<"read_file", [risk_level |-> "SAFE", url |-> UnhashableUrl]>>

\* sessions one call short of the ten records the detectors ask for, and a warm one
DriftSessions ==
    {FreshSession(700, 1000, 100),
     ReplayWith(FreshSession(700, 1000, 100), SafePlain, 0, 2, 9),
     ReplayWith(FreshSession(700, 1000, 100), SafeRead, 0, 0, 9),
     ReplayWith(FreshSession(700, 1000, 100), SafeRead, 0, 2, 9),
     ReplayWith(ReplayWith(FreshSession(700, 1000, 100), ListUrlRead, 0, 2, 8),
                ListUrlRead, MaxWarnings, 2, 1),
     WarmSession(700, 1000, 100)}

DriftCalls ==
    {SafePlain,
     SafeRead,
     SafeExternal,
     ListUrlRead,
     <<"x", [risk_level |-> "MEDIUM", path |-> "/etc/hosts"]>>}

InitDrift ==
    /\ \E s \in DriftSessions :
          /\ anchor = s.anchor
          /\ now = s.now
    /\ safeRun = -1
    /\ validator = NewValidator
    /\ guard = NewGuard("shadow", TRUE, 1000)
    /\ last = [call |-> "init"]
    /\ steps = 0
    /\ bridge = NewBridge(TRUE)

\* anchor.pre_operation(operation, context)
DriftPre ==
    /\ steps < MaxDriftSteps
    /\ \E call \in DriftCalls :
          last' = [call |-> "pre_operation", operation |-> call[1], context |-> call[2],
                   ret |-> PreOperation(anchor, now, call[1], call[2])]
    /\ steps' = steps + 1
    /\ UNCHANGED <<anchor, validator, guard, now, safeRun, bridge>>

\* anchor.post_operation(operation, context, advisory_warnings, constraint_violation)
DriftPost ==
    /\ steps < MaxDriftSteps
    /\ \E call \in DriftCalls, outcome \in {<<0, FALSE>>, <<MaxWarnings, FALSE>>} :
          LET r == PostOperation(anchor, now, call[1], call[2], outcome[1], outcome[2]) IN
          /\ anchor' = r.anchor
          /\ last' = [call |-> "post_operation", operation |-> call[1], context |-> call[2],
                      advisory_warnings |-> outcome[1], constraint_violation |-> outcome[2],
                      ret |-> [raised |-> FALSE, result |-> r.result]]
    /\ steps' = steps + 1
    /\ UNCHANGED <<validator, guard, now, safeRun, bridge>>

\* time passes between two calls
DriftTick ==
    /\ steps < MaxDriftSteps
    /\ \E d \in {2, 20} :
          /\ now + d <= MaxClock
          /\ now' = now + d
    /\ last' = [call |-> "tick"]
    /\ steps' = steps + 1
    /\ UNCHANGED <<anchor, validator, guard, safeRun, bridge>>

NextDrift ==
    \/ DriftPre
    \/ DriftPost
    \/ DriftTick

SpecDrift == InitDrift /\ [][NextDrift]_vars

DriftOrder ==
    <<"escalating_access", "external_drift", "speed_drift", "repetition_anomaly",
      "warning_accumulation">>

SeverityOf(name) ==
    CASE name = "escalating_access" -> "checkpoint"
      [] name = "external_drift" -> "reduce_budget"
      [] name = "speed_drift" -> "slow_down"
      [] name = "repetition_anomaly" -> "checkpoint"
      [] name = "warning_accumulation" -> "checkpoint"
      [] OTHER -> None

\* the detector returns True; one that raises has not detected
Detected(name, history) ==
    CASE name = "escalating_access" -> escalating_access(history)
      [] name = "external_drift" -> external_drift(history)
      [] name = "speed_drift" -> speed_drift(history)
      [] name = "repetition_anomaly" ->
            ~RepetitionRaises(history) /\ repetition_anomaly(history)
      [] name = "warning_accumulation" -> warning_accumulation(history)

FirstHit(history) ==
    LET hits == {i \in 1..Len(DriftOrder) : Detected(DriftOrder[i], history)}
    IN  IF hits = {} THEN None
        ELSE DriftOrder[CHOOSE i \in hits : \A j \in hits : i <= j]

Recommends(what) ==
    \E i \in 1..Len(last.ret.result.recommendations) :
        last.ret.result.recommendations[i] = what

\* C30: the drift scan is a function of the history alone: the first of
\* escalating_access, external_drift, speed_drift, repetition_anomaly,
\* warning_accumulation (in this order) that fires is the one pattern returned,
\* with its fixed severity (checkpoint, reduce_budget, slow_down, checkpoint,
\* checkpoint); a detector that raises counts as not detected and the detectors
\* after it are still evaluated; with fewer than 10 records there is no drift.
C30_ScanReturnsFirstHit ==
    LET hit == FirstHit(anchor.history) IN
    /\ (last.call = "post_operation" /\ ~last.ret.raised) =>
          /\ last.ret.result.drift_detected = hit
          /\ Recommends("budget_reduced") <=> SeverityOf(hit) = "reduce_budget"
          /\ Recommends("slow_down") <=> SeverityOf(hit) = "slow_down"
          /\ Len(anchor.history) < EscalationWindow => last.ret.result.drift_detected = None
    /\ (last.call = "pre_operation" /\ ~last.ret.raised) =>
          /\ last.ret.reason.tag = "drift" =>
                last.ret.reason.detail = hit /\ SeverityOf(hit) = "checkpoint"
          /\ last.ret.reason.tag = "no_human" => SeverityOf(hit) # "checkpoint"
          /\ last.ret.reason.tag = "proceed" =>
                /\ SeverityOf(hit) # "checkpoint"
                /\ last.ret.warnings
                      = (IF hit = None THEN <<>> ELSE << <<"Drift warning", hit>> >>)
          /\ Len(anchor.history) < EscalationWindow =>
                last.ret.reason.tag # "drift" /\ last.ret.warnings = <<>>

\* repetition_anomaly raises on an unhashable resource and the scan goes on to
\* report warning_accumulation
C30_Witness ==
    /\ last.call = "post_operation"
    /\ RepetitionRaises(anchor.history)
    /\ last.ret.result.drift_detected = "warning_accumulation"

-----------------------------------------------------------------------------
(* Budget accounting of post_operation *)

\* C31: every post_operation that returns debits max(0, budget - cost(risk)) and
\* adds one to total_ops_since_checkpoint; when the scan of the history that now
\* holds the new record returns a reduce_budget pattern the budget loses a
\* further 0.2 (floored at 0), on this call and on each later one for which the
\* pattern still holds, while checkpoint and slow_down patterns leave it alone;
\* budget_remaining is the stored risk_budget and the low-budget recommendation
\* is present iff it is below 0.3.
C31_PostDebitsBudget ==
    [][(last'.call = "post_operation" /\ ~last'.ret.raised) =>
          LET risk == AssessRisk(last'.operation, last'.context)
              debited == Max(0, anchor.risk_budget - RISK_COSTS[risk])
              hit == FirstHit(anchor'.history)
              recs == last'.ret.result.recommendations
          IN  /\ anchor'.total_ops_since_checkpoint = anchor.total_ops_since_checkpoint + 1
              /\ anchor'.risk_budget
                    = (IF SeverityOf(hit) = "reduce_budget"
                       THEN Max(0, debited - DriftBudgetPenalty) ELSE debited)
              /\ last'.ret.result.budget_remaining = anchor'.risk_budget
              /\ Contains(recs, "budget_reduced") <=> SeverityOf(hit) = "reduce_budget"
              /\ Contains(recs, "low_budget") <=> anchor'.risk_budget < LowBudgetMark
    ]_vars

\* the second of two post_operations in a row that both met external_drift: the
\* budget has lost 0.2 twice although both operations were SAFE
C31_Witness ==
    /\ LastIsOp("post_operation")
    /\ LastRisk = "SAFE"
    /\ last.ret.result.drift_detected = "external_drift"
    /\ anchor.risk_budget = anchor.budget_size - 2 * DriftBudgetPenalty
    /\ anchor.risk_budget > 0
    /\ last.ret.result.budget_remaining = anchor.risk_budget

-----------------------------------------------------------------------------
(* Guard metrics *)

RECURSIVE SumOver(_, _)
SumOver(f, keys) ==
    IF keys = {} THEN 0
    ELSE LET k == CHOOSE x \in keys : TRUE IN f[k] + SumOver(f, keys \ {k})

CountersConsistent ==
    LET m == guard.metrics IN
    /\ m.would_block_count = m.actually_blocked_count + m.shadow_passes
    /\ m.actually_blocked_count <= m.would_block_count
    /\ m.would_block_count <= m.total_checks
    /\ SumOver(m.by_operation, DOMAIN m.by_operation) = m.total_checks

\* C32: after any sequence of pre_checks would_block_count = actually_blocked_count
\* + shadow_passes, actually_blocked_count <= would_block_count <= total_checks,
\* the per-operation histogram sums to total_checks and, with decision logging
\* on, len(decision_history) = min(total_checks, max_decision_history).
C32_MetricsConsistent ==
    /\ CountersConsistent
    /\ guard.log_decisions =>
          Len(guard.decision_history)
             = Min(guard.metrics.total_checks, guard.max_decision_history)

-----------------------------------------------------------------------------
(* Risk derivation on its own *)

RiskFlags == {"is_external", "involves_phi", "is_destructive", "is_write"}

\* contexts: any of the four flags present with either value, with or without
\* an explicit risk_level
RiskContexts ==
    LET flags == UNION {[keys -> BOOLEAN] : keys \in SUBSET RiskFlags}
    IN  flags \cup {f @@ ("risk_level" :> level) : f \in flags, level \in {"LOW", "CRITICAL"}}

InitRisk ==
    /\ \E operation \in DOMAIN OpChars, context \in RiskContexts :
          last = [call |-> "input", operation |-> operation, context |-> context]
    /\ anchor = NewAnchor(700, 1000, 100, 0)
    /\ now = 0
    /\ safeRun = -1
    /\ validator = NewValidator
    /\ guard = NewGuard("shadow", TRUE, 1000)
    /\ steps = 0
    /\ bridge = NewBridge(TRUE)

\* guard._get_risk_level, anchor.pre_operation and anchor.post_operation on one
\* (operation, context)
RiskAssess ==
    /\ last.call = "input"
    /\ LET pre == PreOperation(anchor, now, last.operation, last.context)
           post == PostOperation(anchor, now, last.operation, last.context, 0, FALSE)
       IN  /\ last' = [call |-> "assessed",
                       operation |-> last.operation,
                       context |-> last.context,
                       decision_risk |-> GetRiskLevel(last.operation, last.context),
                       pre_risk |-> pre.risk_level,
                       post_risk |-> post.anchor.history[Len(post.anchor.history)].risk]
           /\ anchor' = post.anchor
    /\ UNCHANGED <<validator, guard, now, steps, safeRun, bridge>>

SpecRisk == InitRisk /\ [][RiskAssess]_vars

\* the class each operation name falls into under the name rules, taken in order
NameRisk ==
    [operation \in DOMAIN OpChars |->
        CASE operation = "Delete_Row" -> "MEDIUM"
          [] operation = "create_and_send" -> "LOW"
          [] operation = "UPDATE" -> "LOW"
          [] operation = "send" -> "HIGH"
          [] operation = "execute_email" -> "HIGH"
          [] operation = "Retrieval" -> "MEDIUM"
          [] OTHER -> "SAFE"]

Flag(context, key) == key \in DOMAIN context /\ context[key]

\* C33: an explicit risk_level wins over every flag and name rule; otherwise the
\* first of is_external -> HIGH, involves_phi -> HIGH, is_destructive -> MEDIUM,
\* is_write -> LOW, then the name rules (delete.. MEDIUM, write.. LOW, send..
\* HIGH, execute.. MEDIUM, else SAFE; lower-cased substring) decides, so is_write
\* with is_external is HIGH; the guard's decision risk, the pre_operation risk
\* and the post_operation risk are equal for the same (operation, context).
C33_RiskDerivation ==
    last.call = "assessed" =>
       LET context == last.context
           expected ==
               IF "risk_level" \in DOMAIN context THEN context["risk_level"]
               ELSE IF Flag(context, "is_external") THEN "HIGH"
               ELSE IF Flag(context, "involves_phi") THEN "HIGH"
               ELSE IF Flag(context, "is_destructive") THEN "MEDIUM"
               ELSE IF Flag(context, "is_write") THEN "LOW"
               ELSE NameRisk[last.operation]
       IN  /\ last.decision_risk = expected
           /\ last.pre_risk = expected
           /\ last.post_risk = expected
           /\ ("risk_level" \notin DOMAIN context
               /\ Flag(context, "is_write") /\ Flag(context, "is_external"))
                 => last.decision_risk = "HIGH"

\* is_write together with is_external, on an operation whose name alone is LOW
C33_Witness ==
    /\ last.call = "assessed"
    /\ last.operation = "create_and_send"
    /\ "risk_level" \notin DOMAIN last.context
    /\ Flag(last.context, "is_write")
    /\ Flag(last.context, "is_external")
    /\ last.decision_risk = "HIGH"
    /\ last.pre_risk = "HIGH"
    /\ last.post_risk = "HIGH"
    /\ Len(anchor.history) = 1

-----------------------------------------------------------------------------
(* What pre_check and set_mode leave alone *)

\* C34: pre_check (with the pre_operation it makes) and set_mode leave the whole
\* anchor unchanged, in every mode and for every outcome; trust changes only in
\* post_operation and the three human events; the Decision's trust and budget
\* are the anchor's values at the time of the call.
C34_PreCheckReadOnly ==
    [][/\ last'.call \in {"pre_check", "set_mode"} => anchor' = anchor
       /\ (last'.call = "pre_check" /\ ~last'.ret.raised /\ last'.recorded) =>
             /\ last'.decision.trust_score = anchor.trust_score
             /\ last'.decision.budget_remaining = anchor.risk_budget
       /\ anchor'.trust_score # anchor.trust_score =>
             last'.call \in {"post_record", "on_human_message", "on_human_approval",
                             "on_human_correction"}
    ]_vars

\* a pre_check blocked in Enforce mode on an anchor that has already spent budget
C34_Witness ==
    /\ last.call = "pre_check"
    /\ ~last.ret.raised
    /\ last.recorded
    /\ last.mode = "enforce"
    /\ ~last.ret.allowed
    /\ Len(anchor.history) > 0
    /\ anchor.risk_budget < anchor.budget_size
    /\ last.decision.budget_remaining = anchor.risk_budget
    /\ last.decision.trust_score = anchor.trust_score

-----------------------------------------------------------------------------
(* The validator's verdict inside pre_check *)

\* the issues of the last pre_check: the Decision's reasons when it would block
LastIssues == IF last.decision.would_block THEN last.decision.reasons ELSE <<>>

IsValidatorIssue(m) == m[1] \in {"[MANDATORY]", "[REQUIRED]"}

\* C35: for every ValidationResult can_execute is true iff blocking_errors is
\* empty; so in pre_check the validator contributes issues iff can_execute is
\* false, and an override justification never removes an anchor denial from the
\* issues.
C35_ValidatorIssues ==
    /\ \A n \in 1..Len(validator.history) :
          can_execute(validator.history[n]) <=> blocking_errors(validator.history[n]) = <<>>
    /\ (last.call = "pre_check" /\ ~last.ret.raised /\ last.recorded) =>
          LET result == validator.history[Len(validator.history)]
              anchor_check == PreOperation(anchor, now, last.operation, last.context)
          IN  /\ (\E i \in 1..Len(LastIssues) : IsValidatorIssue(LastIssues[i]))
                    <=> ~can_execute(result)
              /\ \A i \in 1..Len(LastIssues) :
                    IsValidatorIssue(LastIssues[i])
                       => Contains(blocking_errors(result), LastIssues[i])
              /\ ~anchor_check.can_proceed =>
                    /\ last.decision.would_block
                    /\ LastIssues[1] = <<"[ANCHOR]", anchor_check.reason.tag,
                                         anchor_check.reason.detail>>
              /\ last.decision.would_block
                    <=> (~anchor_check.can_proceed \/ ~can_execute(result))

\* a justified pre_check: the required failure is overridden, the validator
\* contributes nothing, and the anchor's denial is the one issue left
C35_Witness ==
    /\ last.call = "pre_check"
    /\ ~last.ret.raised
    /\ last.recorded
    /\ last.override_justification = "audit #42"
    /\ required_failures(validator.history[Len(validator.history)]) # <<>>
    /\ can_execute(validator.history[Len(validator.history)])
    /\ Len(LastIssues) = 1
    /\ LastIssues[1][1] = "[ANCHOR]"

-----------------------------------------------------------------------------
(* Human events and the drift scan *)

DeniedForDrift(r) == ~r.raised /\ r.reason.tag = "drift"

\* C36: human_checkpoint and human_interacted do not modify the operation
\* history, so the drift scan gives the same result right after them as right
\* before: a pre_operation denied for a checkpoint-severity pattern is still
\* denied, for the same pattern, right after the call.
C36_HumanEventsKeepDrift ==
    [][last'.call \in {"human_checkpoint", "human_interacted"} =>
          /\ anchor'.history = anchor.history
          /\ DetectDrift(anchor'.history) = DetectDrift(anchor.history)
          /\ \A call \in Calls :
                DeniedForDrift(PreOperation(anchor, now, call[1], call[2])) =>
                   /\ DeniedForDrift(PreOperation(anchor', now', call[1], call[2]))
                   /\ PreOperation(anchor', now', call[1], call[2]).reason.detail
                         = PreOperation(anchor, now, call[1], call[2]).reason.detail
    ]_vars

\* right after a human_checkpoint a SAFE read is denied for escalating_access
C36_Witness ==
    /\ last.call = "human_checkpoint"
    /\ anchor.risk_budget = anchor.budget_size
    /\ DetectDrift(anchor.history).severity = "checkpoint"
    /\ DeniedForDrift(PreOperation(anchor, now, SafePlain[1], SafePlain[2]))

-----------------------------------------------------------------------------
(* Admission and recording interleaved, Enforce mode *)

MaxAdmitSteps == 5    \* calls per behaviour

\* the caller's side is kept in `last`: the admitted operations not yet recorded,
\* the cost admitted since the last checkpoint, and whether a debit met its floor
InitAdmit ==
    /\ \E s \in {FreshSession(700, 1000, 100), FreshSession(600, 400, 100)} :
          /\ anchor = s.anchor
          /\ now = s.now
    /\ safeRun = -1
    /\ validator = NewValidator
    /\ guard = NewGuard("enforce", TRUE, 1000)
    /\ last = [call |-> "init", pending |-> <<>>, admitted |-> 0, floored |-> FALSE]
    /\ steps = 0
    /\ bridge = NewBridge(TRUE)

AdmitPreCheckStep(call, r) ==
    /\ guard' = r.guard
    /\ validator' = r.validator
    /\ last' = [call |-> "pre_check", operation |-> call[1], context |-> call[2],
                allowed |-> r.allowed,
                pending |-> IF r.allowed THEN Append(last.pending, call) ELSE last.pending,
                admitted |-> last.admitted
                             + (IF r.allowed THEN RISK_COSTS[GetRiskLevel(call[1], call[2])]
                                ELSE 0),
                floored |-> last.floored]

\* guard.pre_check(operation, context); an allowed operation is executed later
AdmitPreCheck ==
    /\ steps < MaxAdmitSteps
    /\ \E call \in {SafePlain,
                    <<"x", [risk_level |-> "MEDIUM", path |-> "/tmp/a"]>>,
                    <<"send", [risk_level |-> "HIGH"]>>} :
          AdmitPreCheckStep(call, PreCheck(guard, anchor, validator, now,
                                           call[1], call[2], None))
    /\ steps' = steps + 1
    /\ UNCHANGED <<anchor, now, safeRun, bridge>>

AdmitPostRecordStep(i, call, r) ==
    /\ anchor' = r.anchor
    /\ last' = [call |-> "post_record", operation |-> call[1], context |-> call[2],
                pending |-> SubSeq(last.pending, 1, i - 1)
                            \o SubSeq(last.pending, i + 1, Len(last.pending)),
                admitted |-> last.admitted,
                floored |-> \/ last.floored
                            \/ anchor.risk_budget
                                  - RISK_COSTS[GetRiskLevel(call[1], call[2])] < 0]

\* guard.post_record(operation, context) for one of the admitted operations, in any order
AdmitPostRecord ==
    /\ steps < MaxAdmitSteps
    /\ \E i \in 1..Len(last.pending) :
          AdmitPostRecordStep(i, last.pending[i],
                              PostRecord(guard, anchor,
                                         PostOperation(anchor, now, last.pending[i][1],
                                                       last.pending[i][2], 0, FALSE)))
    /\ steps' = steps + 1
    /\ UNCHANGED <<validator, guard, now, safeRun, bridge>>

\* guard.on_human_approval(): a new accounting period starts
AdmitCheckpoint ==
    /\ steps < MaxAdmitSteps
    /\ anchor' = HumanCheckpoint(anchor, now)
    /\ last' = [call |-> "on_human_approval", pending |-> last.pending,
                admitted |-> 0, floored |-> last.floored]
    /\ steps' = steps + 1
    /\ UNCHANGED <<validator, guard, now, safeRun, bridge>>

NextAdmit ==
    \/ AdmitPreCheck
    \/ AdmitPostRecord
    \/ AdmitCheckpoint

SpecAdmit == InitAdmit /\ [][NextAdmit]_vars

\* C37: in Enforce mode, with post_record called only for operations whose
\* pre_check was allowed, in every interleaving of the two the cost of the
\* operations admitted since the last human checkpoint never exceeds
\* budget_size and the debit of post_record never needs its max(0, .) floor.
C37_AdmittedWithinBudget ==
    /\ last.admitted <= anchor.budget_size
    /\ ~last.floored

-----------------------------------------------------------------------------
(* Connecting and disconnecting the bridge *)

\* the decision events the bridge has taken from the guard: queued or posted
Forwarded(b) == b.enqueued

\* C38: connect() on a connected bridge changes nothing; while the bridge is
\* connected each guard decision is enqueued (async) or sent (sync) exactly
\* once; after disconnect() no further decision is forwarded or queued.
C38_ForwardsOnceWhileConnected ==
    [][/\ (last'.call = "connect" /\ bridge.connected) =>
             bridge' = bridge /\ guard' = guard /\ anchor' = anchor
       /\ (last'.call = "pre_check" /\ ~last'.ret.raised /\ last'.recorded) =>
             IF bridge.connected
             THEN /\ Forwarded(bridge') = Forwarded(bridge) + 1
                  /\ bridge.async_mode =>
                        /\ bridge'.wire = bridge.wire
                        /\ Len(bridge'.queues[bridge.queue])
                              = Len(bridge.queues[bridge.queue]) + 1
                  /\ ~bridge.async_mode => Len(bridge'.wire) = Len(bridge.wire) + 1
             ELSE bridge' = bridge
    ]_vars

-----------------------------------------------------------------------------
(* The async bridge's worker threads under fair scheduling *)

MaxLiveCalls == 5

\* DashboardBridge(guard, async_mode=True) on a new EquilibriumGuard
InitLive ==
    /\ anchor = FreshSession(700, 1000, 100).anchor
    /\ now = FreshSession(700, 1000, 100).now
    /\ safeRun = anchor.budget_size
    /\ validator = NewValidator
    /\ guard = NewGuard("enforce", TRUE, 1000)
    /\ bridge = NewBridge(TRUE)
    /\ last = [call |-> "init"]
    /\ steps = 0

\* bridge.connect() on the caller's thread
LiveConnect ==
    /\ steps < MaxLiveCalls
    /\ \E ok \in BOOLEAN :
          /\ bridge' = Connect(bridge, guard, anchor, ok).bridge
          /\ guard' = Connect(bridge, guard, anchor, ok).guard
          /\ anchor' = Connect(bridge, guard, anchor, ok).anchor
    /\ last' = [call |-> "connect"]
    /\ steps' = steps + 1
    /\ UNCHANGED <<validator, now, safeRun>>

\* bridge.disconnect() on the caller's thread
LiveDisconnect ==
    /\ steps < MaxLiveCalls
    /\ bridge' = Disconnect(bridge)
    /\ last' = [call |-> "disconnect"]
    /\ steps' = steps + 1
    /\ UNCHANGED <<anchor, validator, guard, now, safeRun>>

\* guard.pre_check(operation, context) on the caller's thread, the guard running
\* its decision callbacks before it returns
LivePreCheck ==
    /\ steps < MaxLiveCalls
    /\ BridgePreCheckStep(SafePlain, TRUE,
                          PreCheck(guard, anchor, validator, now, SafePlain[1], SafePlain[2],
                                   None))
    /\ steps' = steps + 1
    /\ UNCHANGED <<anchor, now>>

\* a worker thread returns from self._queue.get(), or starts to wait in it
LiveWorkerGet ==
    /\ \E w \in 1..Len(bridge.workers) :
          /\ WorkerCanGet(bridge, w)
          /\ WorkerGet(bridge, w) # bridge
          /\ bridge' = WorkerGet(bridge, w)
          /\ last' = [call |-> "worker_get", worker |-> w]
    /\ UNCHANGED <<anchor, validator, guard, now, safeRun, steps>>

\* requests.post returns within its timeout: the post succeeds, fails or times out
LiveWorkerSend ==
    /\ \E w \in 1..Len(bridge.workers), ok \in BOOLEAN :
          /\ bridge.workers[w].pc = "send"
          /\ bridge' = WorkerSend(bridge, w, ok)
          /\ last' = [call |-> "worker_send", worker |-> w, ok |-> ok,
                      seq |-> bridge.workers[w].item.seq]
    /\ UNCHANGED <<anchor, validator, guard, now, safeRun, steps>>

NextBridgeLive ==
    \/ LiveConnect
    \/ LiveDisconnect
    \/ LivePreCheck
    \/ LiveWorkerGet
    \/ LiveWorkerSend

\* the caller makes at most MaxLiveCalls calls; the worker threads are always
\* scheduled again and every post returns
SpecBridgeLive ==
    /\ InitLive
    /\ [][NextBridgeLive]_vars
    /\ WF_vars(LiveWorkerGet)
    /\ WF_vars(LiveWorkerSend)

\* the first decision event waits in a queue while the bridge is connected
FirstEventQueued ==
    /\ bridge.connected
    /\ \E q \in 1..Len(bridge.queues) :
          \E i \in 1..Len(bridge.queues[q]) :
             bridge.queues[q][i].type = "decision" /\ bridge.queues[q][i].seq = 1

FirstEventSent ==
    \E i \in 1..Len(bridge.wire) :
       bridge.wire[i].thread = "worker" /\ bridge.wire[i].seq = 1

\* the bridge has been disconnected and its first worker is still running
FirstWorkerStopping ==
    /\ ~bridge.connected
    /\ Len(bridge.workers) >= 1
    /\ \E q \in 1..Len(bridge.queues) :
          \E i \in 1..Len(bridge.queues[q]) : bridge.queues[q][i].type = "stop"

FirstWorkerDone == Len(bridge.workers) >= 1 /\ bridge.workers[1].pc = "done"

\* C39: in async mode every event enqueued before disconnect() is dequeued and
\* its send attempted by the worker before the worker stops, and after
\* disconnect() the worker eventually terminates, given that every send returns
\* and the worker is scheduled fairly.
C39_WorkerDrainsAndStops ==
    /\ FirstEventQueued ~> FirstEventSent
    /\ FirstWorkerStopping ~> FirstWorkerDone

-----------------------------------------------------------------------------
(* The lightweight skill guard: skill/guard.py, EQGuard on DEFAULT_CONFIG *)

MaxSkillSteps == 4

\* risk.upper()
SkillUpper(risk) ==
    CASE risk = "critical" -> "CRITICAL"
      [] risk = "medium" -> "MEDIUM"
      [] OTHER -> risk

\* self.config[table].get(risk, 0)
SkillGet(table, risk) == IF risk \in DOMAIN table THEN table[risk] ELSE 0

\* EQGuard.check(operation, risk) with datetime.now() = t: the pair
\* (can_proceed, reason); the reason is given by the name of the return taken
EQCheck(state, t, risk) ==
    LET r == SkillUpper(risk)
        required_trust == SkillGet(RISK_TRUST_THRESHOLDS, r)
        cost == SkillGet(RISK_COSTS, r)
    IN  IF state.mode = "disabled" THEN <<TRUE, "disabled">>
        ELSE IF r = "CRITICAL" THEN <<FALSE, "critical">>
        ELSE IF state.trust < required_trust THEN <<FALSE, "trust">>
        ELSE IF state.budget < cost THEN <<FALSE, "budget">>
        ELSE IF t - state.last_human > 3600 /\ r \in {"MEDIUM", "HIGH"}
             THEN <<FALSE, "idle">>
        ELSE IF state.mode = "shadow" THEN <<TRUE, "shadow">>
        ELSE IF state.mode = "soft" /\ r \notin {"HIGH", "CRITICAL"} THEN <<TRUE, "soft">>
        ELSE <<TRUE, "proceed">>

\* EQGuard() without a config.yaml: GuardState from DEFAULT_CONFIG
InitSkill ==
    /\ guard = [trust |-> 700, budget |-> 1000, mode |-> "shadow",
                ops_since_checkpoint |-> 0, clean_streak |-> 0, last_human |-> 0,
                history |-> <<>>]
    /\ now = 0
    /\ last = [call |-> "init"]
    /\ steps = 0
    /\ anchor = None
    /\ validator = None
    /\ bridge = None
    /\ safeRun = 0

\* guard.check(operation, risk), called d seconds after the previous call
SkillCheck ==
    /\ steps < MaxSkillSteps
    /\ \E risk \in RiskLevels \cup {"critical", "medium", "UNRATED"}, d \in TickDeltas :
          /\ now + d <= MaxClock
          /\ now' = now + d
          /\ last' = [call |-> "check", risk |-> risk, mode |-> guard.mode,
                      ret |-> EQCheck(guard, now + d, risk)]
    /\ steps' = steps + 1
    /\ UNCHANGED <<anchor, validator, guard, safeRun, bridge>>

\* guard.record(operation, risk, warning, violation)
SkillRecord ==
    /\ steps < MaxSkillSteps
    /\ \E risk \in {"LOW", "HIGH"}, outcome \in {"clean", "warning", "violation"} :
          LET budget1 == Max(0, guard.budget - SkillGet(RISK_COSTS, SkillUpper(risk)))
              streak1 == IF outcome = "clean" THEN guard.clean_streak + 1 ELSE 0
              trust1 == CASE outcome = "violation" -> Max(0, guard.trust - 200)
                          [] outcome = "warning" -> Max(0, guard.trust - 20)
                          [] OTHER -> IF streak1 >= 10
                                      THEN Min(1000, Min(1000, guard.trust + 5) + 10)
                                      ELSE Min(1000, guard.trust + 5)
          IN  /\ guard' = [guard EXCEPT
                              !.budget = budget1,
                              !.ops_since_checkpoint = @ + 1,
                              !.trust = trust1,
                              !.clean_streak = streak1,
                              !.history = LastN(Append(@, [risk |-> SkillUpper(risk),
                                                           budget_after |-> budget1,
                                                           trust_after |-> trust1]), 100)]
              /\ last' = [call |-> "record", risk |-> risk, outcome |-> outcome]
    /\ steps' = steps + 1
    /\ UNCHANGED <<anchor, validator, now, safeRun, bridge>>

\* guard.checkpoint()
SkillCheckpoint ==
    /\ steps < MaxSkillSteps
    /\ guard' = [guard EXCEPT !.budget = 1000,
                              !.trust = Min(1000, @ + 100),
                              !.last_human = now,
                              !.ops_since_checkpoint = 0,
                              !.clean_streak = 0]
    /\ last' = [call |-> "checkpoint"]
    /\ steps' = steps + 1
    /\ UNCHANGED <<anchor, validator, now, safeRun, bridge>>

\* guard.set_mode(mode)
SkillSetMode ==
    /\ steps < MaxSkillSteps
    /\ \E name \in Modes \cup {"strict"} :
          /\ guard' = IF name \in {"disabled", "shadow", "soft", "enforce"}
                      THEN [guard EXCEPT !.mode = name]
                      ELSE guard
          /\ last' = [call |-> "set_mode", name |-> name, before |-> guard.mode]
    /\ steps' = steps + 1
    /\ UNCHANGED <<anchor, validator, now, safeRun, bridge>>

NextSkill ==
    \/ SkillCheck
    \/ SkillRecord
    \/ SkillCheckpoint
    \/ SkillSetMode

SpecSkill == InitSkill /\ [][NextSkill]_vars

\* C40: EQGuard.check follows the documented mode policy for every state and
\* risk level: in shadow mode it never returns can_proceed = False, in soft mode
\* it returns False only for HIGH or CRITICAL risk, in disabled mode it always
\* returns True; set_mode with a name that is not a mode leaves the mode unchanged.
C40_CheckFollowsModePolicy ==
    /\ last.call = "check" =>
          /\ last.mode = "shadow" => last.ret[1]
          /\ (last.mode = "soft" /\ ~last.ret[1]) =>
                SkillUpper(last.risk) \in {"HIGH", "CRITICAL"}
          /\ last.mode = "disabled" => last.ret[1]
    /\ (last.call = "set_mode" /\ last.name \notin Modes) => guard.mode = last.before

====
